---- MODULE Spec2Model ----
(***************************************************************************)
(* BLS aggregation and batch verification (src/src/aggregates.rs) over the *)
(* pairing helpers of src/src/amcl_utils.rs.                               *)
(*                                                                         *)
(* Group elements are written as their discrete logarithm with respect to  *)
(* the group generator, modulo the group order: 0 is the point at          *)
(* infinity, 1 the generator, addition is addition mod CURVE_ORDER and the *)
(* pairing e(a*G2, b*G1) is the exponent a*b of the target group, whose    *)
(* identity is the exponent 0.  A point also records whether it is held in *)
(* normalized (affine) form.                                               *)
(***************************************************************************)
EXTENDS Integers, Sequences, FiniteSets, TLC

(***************************************************************************)
(* Program constants and model bounds                                      *)
(***************************************************************************)

\* The prime order r of G1, G2 and GT (a 255-bit prime in the program; a
\* small prime here, so that every nonzero element is a generator).
CURVE_ORDER == 5

\* aggregates.rs:17
MSG_LENGTH == 32

\* The domain the signers sign under, and a second one.
SIGN_DOMAIN == 45
OTHER_DOMAIN == 46

\* Largest number of signatures / keys added to one aggregate.
MaxSigners == 3

Domains == {SIGN_DOMAIN, OTHER_DOMAIN}

\* Messages, as the tests build them: vec![fill; len].  Two of MSG_LENGTH
\* bytes and one that is a byte longer.
Bytes(b, n) == [fill |-> b, len |-> n]
MsgLen(msg) == msg.len
MSG_1 == Bytes(111, MSG_LENGTH)
MSG_2 == Bytes(222, MSG_LENGTH)
MSG_LONG == Bytes(222, MSG_LENGTH + 1)
MsgList == <<MSG_1, MSG_2, MSG_LONG>>
Msgs == {MsgList[i] : i \in 1..Len(MsgList)}

\* Secret keys are the nonzero scalars; the public key of sk is sk * G1.
SecretKeys == 1..(CURVE_ORDER - 1)

(***************************************************************************)
(* The curve point provider (ECP / ECP2)                                   *)
(***************************************************************************)

Point == [e : 0..(CURVE_ORDER - 1), aff : BOOLEAN]

\* GroupG1::new() / GroupG2::new(): the point at infinity
ECP_new == [e |-> 0, aff |-> TRUE]

\* GroupG1::generator()
ECP_generator == [e |-> 1, aff |-> TRUE]

ECP_is_infinity(P) == P.e = 0

\* P.add(Q): the sum, left in projective (non-normalized) form
ECP_add(P, Q) == [e |-> (P.e + Q.e) % CURVE_ORDER, aff |-> FALSE]

\* P.neg()
ECP_neg(P) == [P EXCEPT !.e = (CURVE_ORDER - P.e) % CURVE_ORDER]

\* P.affine()
ECP_affine(P) == [P EXCEPT !.aff = TRUE]

\* P.mul(k): RETURNS the multiple k*P as a new point; P itself is unchanged
ECP_mul(P, k) == [e |-> (P.e * k) % CURVE_ORDER, aff |-> FALSE]

(***************************************************************************)
(* The pairing provider                                                    *)
(***************************************************************************)

\* A target-field value: its exponent, and whether the final exponentiation
\* has been applied to it (a raw Miller-loop value is not a pairing value).
FP12_of(t, fe) == [t |-> t, fe |-> fe]

\* pair::initmp(): an empty accumulation; n counts the pairs accumulated
pair_initmp == [t |-> 0, n |-> 0]

\* pair::another(r, P, Q): multiply the accumulation by the Miller term of
\* (P in G2, Q in G1)
pair_another(r, P, Q) ==
    [t |-> (r.t + P.e * Q.e) % CURVE_ORDER, n |-> r.n + 1]

\* pair::miller(r)
pair_miller(r) == FP12_of(r.t, FALSE)

\* pair::fexp(v)
pair_fexp(v) == FP12_of(v.t, TRUE)

\* pair::ate2(a, b, c, d): Miller loops of e(a, b) * e(c, d)
pair_ate2(a, b, c, d) == FP12_of((a.e * b.e + c.e * d.e) % CURVE_ORDER, FALSE)

\* v.isunity() / FP12::new_int(1).equals(v)
FP12_isunity(v) == v.fe /\ v.t = 0

(***************************************************************************)
(* amcl_utils.rs                                                           *)
(***************************************************************************)

\* hash_to_curve_g2(msg): a collision-free map of the messages to points of
\* G2 other than the identity
hash_to_curve_g2(msg) ==
    [e |-> CHOOSE i \in 1..Len(MsgList) : MsgList[i] = msg, aff |-> FALSE]

\* A hash that maps every message to the same point.
hash_on_g2_const(msg, domain) == [e |-> 1, aff |-> FALSE]

\* amcl_utils.rs:33 hash_on_g2 takes the message alone; the domain its
\* callers in aggregates.rs hand it does not reach hash_to_curve_g2.
hash_on_g2(msg, domain) == hash_to_curve_g2(msg)

\* An evaluation that compares the raw Miller-loop value with one.
ate2_evaluation_no_fexp(a, b, c, d) ==
    FP12_isunity(pair_ate2(a, b, c, d))

\* amcl_utils.rs:55 evaluation of e(A, B) * e(C, D) == 1
ate2_evaluation(a, b, c, d) ==
    LET e0 == pair_ate2(a, b, c, d)
        e1 == pair_fexp(e0)
    IN  FP12_isunity(e1)

(***************************************************************************)
(* Keys and signatures (keys.rs, signature.rs)                             *)
(***************************************************************************)

\* PublicKey::from_secret_key(sk): sk * generator, normalized
PublicKey_from_secret_key(sk) == ECP_affine(ECP_mul(ECP_generator, sk))

\* Signature::new(msg, domain, sk): sk * hash_on_g2(msg, domain), normalized
Signature_new(msg, domain, sk) == ECP_affine(ECP_mul(hash_on_g2(msg, domain), sk))

(***************************************************************************)
(* aggregates.rs: AggregatePublicKey, AggregateSignature                   *)
(***************************************************************************)

\* AggregatePublicKey::new() / AggregateSignature::new()
AggregatePublicKey_new == ECP_new
AggregateSignature_new == ECP_new

\* AggregatePublicKey::add(&mut self, public_key)
AggregatePublicKey_add(self, public_key) == ECP_add(self, public_key)

\* AggregateSignature::add(&mut self, signature)
AggregateSignature_add(self, signature) == ECP_add(self, signature)

\* An add_aggregate that takes over the other aggregate's point.
AggregatePublicKey_take(self, aggregate_public_key) == aggregate_public_key

\* AggregatePublicKey::add_aggregate, AggregateSignature::add_aggregate
AggregatePublicKey_add_aggregate(self, aggregate_public_key) ==
    ECP_add(self, aggregate_public_key)
AggregateSignature_add_aggregate(self, aggregate_signature) ==
    ECP_add(self, aggregate_signature)

\* AggregatePublicKey::from_public_keys(keys): fold of add, then affine
RECURSIVE FoldKeys(_, _)
FoldKeys(acc, keys) ==
    IF keys = <<>> THEN acc
    ELSE FoldKeys(ECP_add(acc, Head(keys)), Tail(keys))

AggregatePublicKey_from_public_keys(keys) ==
    ECP_affine(FoldKeys(AggregatePublicKey_new, keys))

\* PartialEq of G1Point / G2Point (g1.rs, g2.rs): the normalized values of
\* the two points are compared.
Point_eq(a, b) ==
    LET clone_a == ECP_affine(a)
        clone_b == ECP_affine(b)
    IN  clone_a = clone_b

\* An equality that compares the points as they are held.
AggregatePublicKey_eq_as_held(a, b) == a = b

\* aggregates.rs:33, 95 #[derive(PartialEq)]: the equality of the point field
AggregatePublicKey_eq(a, b) == Point_eq(a, b)
AggregateSignature_eq(a, b) == Point_eq(a, b)

\* verify without negating the generator: checks e(S, G1) * e(H, PK) == 1
verify_no_neg(self, msg, domain, avk) ==
    LET sig_point == ECP_affine(self)
        key_point == ECP_affine(avk)
        msg_hash_point == ECP_affine(hash_on_g2(msg, domain))
    IN  ate2_evaluation(sig_point, ECP_generator, msg_hash_point, key_point)

\* AggregateSignature::verify(&self, msg, domain, avk)
verify(self, msg, domain, avk) ==
    LET sig_point == ECP_affine(self)
        key_point == ECP_affine(avk)
        msg_hash_point == ECP_affine(hash_on_g2(msg, domain))
        generator_g1_negative == ECP_neg(ECP_generator)
    IN  ate2_evaluation(sig_point, generator_g1_negative, msg_hash_point, key_point)

(***************************************************************************)
(* State                                                                   *)
(***************************************************************************)

VARIABLES
    agg_signature,  \* the AggregateSignature under construction (its point)
    signers,        \* how often each (secret key, message) signed into it
    agg_pub,        \* the AggregatePublicKey under construction (its point)
    pub_keys,       \* how often each key was added to it
    ret,            \* result of the last verify: "none", "true" or "false"
    v_msg,          \* the message of the last verify
    v_domain        \* the domain of the last verify

verify_vars == <<agg_signature, signers, agg_pub, pub_keys, ret, v_msg, v_domain>>

\* One call of verify_multiple_signatures(rng, signature_sets)
VARIABLES
    signature_sets, \* the sets the iterator yields, in order
    next_set,       \* number of sets pulled from the iterator so far
    final_agg_sig,  \* the running G2 total
    r,              \* the pairing accumulation
    rands,          \* the scalar derived for each set processed so far
    calls,          \* the (G2, G1) arguments of every pair::another so far
    added,          \* the point added to final_agg_sig for each set so far
    n_miller,       \* number of pair::miller calls
    n_fexp,         \* number of pair::fexp calls
    vms_ret         \* "idle", "running", "true", "false" or "panic"

batch_vars == <<signature_sets, next_set, final_agg_sig, r, rands, calls, added,
                n_miller, n_fexp, vms_ret>>

\* One call of self.verify_multiple(msg, domain, apks)
VARIABLES
    vm_self,        \* the receiver's point
    vm_msg,         \* the messages
    vm_domain,      \* the domain
    vm_apks,        \* the points of the aggregate public keys
    vm_i,           \* number of passes of the loop completed
    vm_r,           \* the pairing accumulation
    vm_calls,       \* the (G2, G1) arguments of every pair::another so far
    vm_n_miller,    \* number of pair::miller calls
    vm_n_fexp,      \* number of pair::fexp calls
    vm_ret          \* "idle", "start", "loop", "true", "false" or "panic"

vm_vars == <<vm_self, vm_msg, vm_domain, vm_apks, vm_i, vm_r, vm_calls,
             vm_n_miller, vm_n_fexp, vm_ret>>

\* One run of the codec: a point or a byte string, and what compress and
\* decompress make of it
VARIABLES
    cd_group,       \* "g1" or "g2": the group whose codec runs
    cd_root,        \* which square root the provider's point construction
                    \* yields: 0 the smaller, 1 the larger (either is legal)
    cd_input,       \* the value the run starts from
    cd_steps        \* the values computed so far, in order

codec_vars == <<cd_group, cd_root, cd_input, cd_steps>>

\* Two aggregates of one kind, built side by side and merged
VARIABLES
    mo_kind,        \* "pk": AggregatePublicKeys, "sig": AggregateSignatures
    mo_agg,         \* the points of the two aggregates
    mo_added,       \* for each aggregate, how often each element went into it
    mo_merges       \* number of add_aggregate calls so far

monoid_vars == <<mo_kind, mo_agg, mo_added, mo_merges>>

\* Two aggregates exported to bytes and imported again
\* (test_aggregate_serialization)
VARIABLES
    sr_sig,         \* the AggregateSignature (its point)
    sr_key,         \* the AggregatePublicKey (its point)
    sr_msg,         \* the message verify is called with
    sr_domain,      \* the domain verify is called with
    sr_sig_bytes,   \* agg_sig.as_bytes()
    sr_key_bytes,   \* agg_pub_key.as_bytes()
    sr_dec_sig,     \* AggregateSignature::from_bytes(&agg_sig_bytes)
    sr_dec_key,     \* AggregatePublicKey::from_bytes(&agg_pub_bytes)
    sr_before,      \* verify on the aggregates exported: "none", "true", "false"
    sr_after,       \* verify on the aggregates imported
    sr_pc           \* "idle", "built", "checked", "exported", "imported", "verified"

serial_vars == <<sr_sig, sr_key, sr_msg, sr_domain, sr_sig_bytes, sr_key_bytes,
                 sr_dec_sig, sr_dec_key, sr_before, sr_after, sr_pc>>

vars == <<verify_vars, batch_vars, vm_vars, codec_vars, monoid_vars, serial_vars>>

\* A boolean result, as the value a call leaves in ret.
Bool(b) == IF b THEN "true" ELSE "false"

\* No message: the verify arguments before any call.
NoMsg == Bytes(0, 0)

\* The messages the signers of the single-message scenario sign.
SignMsgs == {MSG_1, MSG_2}

\* How often key k signed (either message), and how often it signed a
\* message other than msg.
SignCount(k) == signers[<<k, MSG_1>>] + signers[<<k, MSG_2>>]
SignCountNotOver(k, msg) ==
    (IF MSG_1 # msg THEN signers[<<k, MSG_1>>] ELSE 0)
  + (IF MSG_2 # msg THEN signers[<<k, MSG_2>>] ELSE 0)

\* Number of signatures added to agg_signature, of keys added to agg_pub,
\* counting the keys 1..k.
RECURSIVE NSigsUpTo(_)
NSigsUpTo(k) == IF k = 0 THEN 0 ELSE SignCount(k) + NSigsUpTo(k - 1)
RECURSIVE NKeysUpTo(_)
NKeysUpTo(k) == IF k = 0 THEN 0 ELSE pub_keys[k] + NKeysUpTo(k - 1)

NSigs == NSigsUpTo(CURVE_ORDER - 1)
NKeys == NKeysUpTo(CURVE_ORDER - 1)

(***************************************************************************)
(* The single-message scenario: helper_test_aggregate_public_keys          *)
(***************************************************************************)

\* Nothing is being exported or imported.
SerialIdle ==
    /\ sr_sig = AggregateSignature_new
    /\ sr_key = AggregatePublicKey_new
    /\ sr_msg = NoMsg
    /\ sr_domain = 0
    /\ sr_sig_bytes = <<>>
    /\ sr_key_bytes = <<>>
    /\ sr_dec_sig = <<>>
    /\ sr_dec_key = <<>>
    /\ sr_before = "none"
    /\ sr_after = "none"
    /\ sr_pc = "idle"

\* No aggregates are being merged.
MonoidIdle ==
    /\ mo_kind = "none"
    /\ mo_agg = <<>>
    /\ mo_added = <<>>
    /\ mo_merges = 0

\* The codec is not running.
CodecIdle ==
    /\ cd_group = "none"
    /\ cd_root = 0
    /\ cd_input = <<>>
    /\ cd_steps = <<>>

\* No call of verify_multiple is in progress.
MultipleIdle ==
    /\ vm_self = AggregateSignature_new
    /\ vm_msg = <<>>
    /\ vm_domain = 0
    /\ vm_apks = <<>>
    /\ vm_i = 0
    /\ vm_r = pair_initmp
    /\ vm_calls = <<>>
    /\ vm_n_miller = 0
    /\ vm_n_fexp = 0
    /\ vm_ret = "idle"

\* No call of verify_multiple_signatures is in progress.
BatchIdle ==
    /\ signature_sets = <<>>
    /\ next_set = 0
    /\ final_agg_sig = ECP_new
    /\ r = pair_initmp
    /\ rands = <<>>
    /\ calls = <<>>
    /\ added = <<>>
    /\ n_miller = 0
    /\ n_fexp = 0
    /\ vms_ret = "idle"

Init ==
    /\ SerialIdle
    /\ BatchIdle
    /\ MultipleIdle
    /\ CodecIdle
    /\ MonoidIdle
    /\ agg_signature = AggregateSignature_new
    /\ signers = [x \in SecretKeys \X SignMsgs |-> 0]
    /\ agg_pub = AggregatePublicKey_new
    /\ pub_keys = [k \in SecretKeys |-> 0]
    /\ ret = "none"
    /\ v_msg = NoMsg
    /\ v_domain = 0

\* agg_signature.add(&Signature::new(&msg, domain, &sk))
SignAndAdd(sk, msg) ==
    /\ NSigs < MaxSigners
    /\ agg_signature' =
           AggregateSignature_add(agg_signature, Signature_new(msg, SIGN_DOMAIN, sk))
    /\ signers' = [signers EXCEPT ![<<sk, msg>>] = @ + 1]
    /\ ret' = "none" /\ v_msg' = NoMsg /\ v_domain' = 0
    /\ UNCHANGED <<agg_pub, pub_keys>>
    /\ UNCHANGED <<batch_vars, vm_vars, codec_vars, monoid_vars, serial_vars>>

\* agg_pub.add(&pk)
AddKey(sk) ==
    /\ NKeys < MaxSigners
    /\ agg_pub' = AggregatePublicKey_add(agg_pub, PublicKey_from_secret_key(sk))
    /\ pub_keys' = [pub_keys EXCEPT ![sk] = @ + 1]
    /\ ret' = "none" /\ v_msg' = NoMsg /\ v_domain' = 0
    /\ UNCHANGED <<agg_signature, signers>>
    /\ UNCHANGED <<batch_vars, vm_vars, codec_vars, monoid_vars, serial_vars>>

\* agg_pub = AggregatePublicKey::from_public_keys(&keys), for an aggregate key
\* that has not been built yet
FromPublicKeys(sks) ==
    /\ NKeys = 0
    /\ agg_pub' = AggregatePublicKey_from_public_keys(
                      [i \in 1..Len(sks) |-> PublicKey_from_secret_key(sks[i])])
    /\ pub_keys' = [k \in SecretKeys |-> Cardinality({i \in 1..Len(sks) : sks[i] = k})]
    /\ ret' = "none" /\ v_msg' = NoMsg /\ v_domain' = 0
    /\ UNCHANGED <<agg_signature, signers>>
    /\ UNCHANGED <<batch_vars, vm_vars, codec_vars, monoid_vars, serial_vars>>

\* ret = agg_signature.verify(&msg, domain, &agg_pub)
Verify(msg, domain) ==
    /\ ret' = Bool(verify(agg_signature, msg, domain, agg_pub))
    /\ v_msg' = msg
    /\ v_domain' = domain
    /\ UNCHANGED <<agg_signature, signers, agg_pub, pub_keys>>
    /\ UNCHANGED <<batch_vars, vm_vars, codec_vars, monoid_vars, serial_vars>>

KeySeqs == UNION {[1..n -> SecretKeys] : n \in 0..MaxSigners}

Next ==
    \/ \E sk \in SecretKeys, msg \in SignMsgs : SignAndAdd(sk, msg)
    \/ \E sk \in SecretKeys : AddKey(sk)
    \/ \E sks \in KeySeqs : FromPublicKeys(sks)
    \/ \E msg \in SignMsgs, domain \in Domains : Verify(msg, domain)

Spec == Init /\ [][Next]_vars

(***************************************************************************)
(* Properties of verify                                                    *)
(***************************************************************************)

Called == ret # "none"

\* Every signature in agg_signature is over msg.
AllSigned(msg) == \A x \in SecretKeys \X SignMsgs : x[2] # msg => signers[x] = 0

\* Number of signatures in agg_signature over a message other than msg.
RECURSIVE NotOverUpTo(_, _)
NotOverUpTo(k, msg) ==
    IF k = 0 THEN 0 ELSE SignCountNotOver(k, msg) + NotOverUpTo(k - 1, msg)
NotOver(msg) == NotOverUpTo(CURVE_ORDER - 1, msg)

\* agg_pub holds exactly the keys that signed, each as often as it signed.
SameKeys == \A k \in SecretKeys : pub_keys[k] = SignCount(k)

\* The sums of the signing keys and of the keys in agg_pub, as scalars.
RECURSIVE SignerKeySumUpTo(_)
SignerKeySumUpTo(k) ==
    IF k = 0 THEN 0 ELSE k * SignCount(k) + SignerKeySumUpTo(k - 1)
RECURSIVE PubKeySumUpTo(_)
PubKeySumUpTo(k) == IF k = 0 THEN 0 ELSE k * pub_keys[k] + PubKeySumUpTo(k - 1)
SignerKeySum == SignerKeySumUpTo(CURVE_ORDER - 1) % CURVE_ORDER
PubKeySum == PubKeySumUpTo(CURVE_ORDER - 1) % CURVE_ORDER

\* C1: n >= 1 signers of the same (message, domain): verify of the sum of
\* their signatures against the sum of their public keys returns true, in
\* whatever order the signatures and the keys were added.
C1_HonestAggregateVerifies ==
    (/\ Called
     /\ v_domain = SIGN_DOMAIN
     /\ NSigs >= 1
     /\ AllSigned(v_msg)
     /\ SameKeys) => ret = "true"

C1_Witness ==
    /\ Called
    /\ v_domain = SIGN_DOMAIN
    /\ NSigs = 3
    /\ AllSigned(v_msg)
    /\ SameKeys
    /\ \A k \in SecretKeys : pub_keys[k] <= 1
    /\ ~agg_pub.aff
    /\ ret = "true"

\* The negative cases of helper_test_aggregate_public_keys.
\* One signer signed a different message.
DifferentMsgCase == SameKeys /\ NotOver(v_msg) = 1
\* The aggregate signature holds a signature by a key that is not in agg_pub.
ExtraSignerCase ==
    /\ AllSigned(v_msg)
    /\ NKeys >= 1
    /\ \E x \in SecretKeys :
          /\ pub_keys[x] = 0 /\ SignCount(x) = 1
          /\ \A k \in SecretKeys \ {x} : pub_keys[k] = SignCount(k)
\* agg_pub holds a proper subset of the (distinct) signing keys.
SubsetCase ==
    /\ AllSigned(v_msg)
    /\ NKeys >= 1
    /\ NKeys < NSigs
    /\ \A k \in SecretKeys : SignCount(k) <= 1 /\ pub_keys[k] <= SignCount(k)
\* A signature was added twice, its key once.
DoubleSigCase ==
    /\ AllSigned(v_msg)
    /\ \E x \in SecretKeys :
          /\ pub_keys[x] = 1 /\ SignCount(x) = 2
          /\ \A k \in SecretKeys \ {x} : pub_keys[k] = SignCount(k)
\* agg_pub is built only from keys that did not sign.
NonSignerCase ==
    /\ AllSigned(v_msg)
    /\ NSigs >= 1
    /\ NKeys >= 1
    /\ \A k \in SecretKeys : pub_keys[k] > 0 => SignCount(k) = 0

C3_EmptyKeyNeverVerifies == (Called /\ NKeys = 0) => ret = "false"

(***************************************************************************)
(* verify_multiple_signatures: the blinding scalar                         *)
(* (aggregates.rs:211-214)                                                 *)
(***************************************************************************)

\* let mut rand = [0 as u8; 8]
RAND_BYTES == 8

\* An i64 is held as its RAND_BYTES big-endian two's-complement bytes.
I64_ZERO == [i \in 1..RAND_BYTES |-> 0]
I64_MIN == [i \in 1..RAND_BYTES |-> IF i = 1 THEN 128 ELSE 0]

\* What rng.fill(&mut rand) can leave in rand: all zero, 2, -3, and i64::MIN.
RandOutputs ==
    { I64_ZERO,
      [i \in 1..RAND_BYTES |-> IF i = RAND_BYTES THEN 2 ELSE 0],
      [i \in 1..RAND_BYTES |-> IF i = RAND_BYTES THEN 253 ELSE 255],
      I64_MIN }

\* i64::from_be_bytes(rand)
i64_from_be_bytes(b) == b

i64_is_negative(v) == v[1] >= 128

\* Two's-complement negation, wrapping: invert every byte and add one.
RECURSIVE AddOne(_, _)
AddOne(v, i) ==
    IF i = 0 THEN v
    ELSE IF v[i] = 255 THEN AddOne([v EXCEPT ![i] = 0], i - 1)
    ELSE [v EXCEPT ![i] = v[i] + 1]

i64_wrapping_neg(v) == AddOne([i \in 1..RAND_BYTES |-> 255 - v[i]], RAND_BYTES)

\* v.abs(): |i64::MIN| is not an i64.  With overflow checks (debug and test
\* builds) the call panics; without them it returns i64::MIN.
i64_abs_overflows(v) == v = I64_MIN
i64_abs(v) == IF i64_is_negative(v) THEN i64_wrapping_neg(v) ELSE v

\* The value of the bytes modulo CURVE_ORDER, read as an unsigned number.
RECURSIVE UnsignedMod(_, _)
UnsignedMod(v, i) ==
    IF i = 0 THEN 0
    ELSE (UnsignedMod(v, i - 1) * 256 + v[i]) % CURVE_ORDER

RECURSIVE PowMod(_, _)
PowMod(b, n) == IF n = 0 THEN 1 ELSE (PowMod(b, n - 1) * b) % CURVE_ORDER

\* BigNum::new_int(rand as isize), as the scalar it stands for modulo the
\* group order: the signed value of the bytes.
BigNum_new_int(v) ==
    (UnsignedMod(v, RAND_BYTES)
       + (IF i64_is_negative(v) THEN CURVE_ORDER - PowMod(256, RAND_BYTES) ELSE 0))
    % CURVE_ORDER

(***************************************************************************)
(* verify_multiple_signatures: its input                                   *)
(***************************************************************************)

\* Largest number of sets in a batch, of keys or messages in a set.
MaxSets == 2
MaxSetLen == 2

\* The messages of the sets, and the offsets by which a set's signature
\* is off the sum of its signatures: none, +G2, -G2.
BatchMsgs == {MSG_1, MSG_LONG}
Offsets == {0, 1, CURVE_ORDER - 1}

\* The j-th keypair of a set: secret key j (wrapped into [1, r)).
BatchSecretKey(j) == ((j - 1) % (CURVE_ORDER - 1)) + 1

\* The aggregate signature of the first n (message, key) pairs.
RECURSIVE HonestSignature(_, _, _)
HonestSignature(msgs, domain, n) ==
    IF n = 0 THEN AggregateSignature_new
    ELSE AggregateSignature_add(HonestSignature(msgs, domain, n - 1),
                                Signature_new(msgs[n], domain, BatchSecretKey(n)))

Min(a, b) == IF a < b THEN a ELSE b

\* A set (G2Point, Vec<G1Point>, Vec<Vec<u8>>, u64): nkeys keys, the messages
\* msgs, and the sum of the signatures of the pairs moved by off * G2.
SignatureSet(nkeys, msgs, off) ==
    [sig    |-> ECP_add(HonestSignature(msgs, SIGN_DOMAIN, Min(nkeys, Len(msgs))),
                        [e |-> off, aff |-> TRUE]),
     keys   |-> [j \in 1..nkeys |-> PublicKey_from_secret_key(BatchSecretKey(j))],
     msgs   |-> msgs,
     domain |-> SIGN_DOMAIN]

MsgSeqs == UNION {[1..n -> BatchMsgs] : n \in 0..MaxSetLen}

SetSpace == {SignatureSet(nkeys, msgs, off) :
                nkeys \in 0..MaxSetLen, msgs \in MsgSeqs, off \in Offsets}

Batches == UNION {[1..n -> SetSpace] : n \in 0..MaxSets}

(***************************************************************************)
(* verify_multiple_signatures (aggregates.rs:196-246)                      *)
(***************************************************************************)

VerifyIdle ==
    /\ agg_signature = AggregateSignature_new
    /\ signers = [x \in SecretKeys \X SignMsgs |-> 0]
    /\ agg_pub = AggregatePublicKey_new
    /\ pub_keys = [k \in SecretKeys |-> 0]
    /\ ret = "none"
    /\ v_msg = NoMsg
    /\ v_domain = 0

\* The call starts: lines 201-204.
InitBatch ==
    /\ SerialIdle
    /\ VerifyIdle
    /\ MultipleIdle
    /\ CodecIdle
    /\ MonoidIdle
    /\ signature_sets \in Batches
    /\ next_set = 0
    /\ final_agg_sig = ECP_new
    /\ r = pair_initmp
    /\ rands = <<>>
    /\ calls = <<>>
    /\ added = <<>>
    /\ n_miller = 0
    /\ n_fexp = 0
    /\ vms_ret = "running"

\* The set the iterator yields next.
CurrentSet == signature_sets[next_set + 1]

\* Lines 219-227, for one (msg, g1_point) of the zip: the arguments handed to
\* pair::another.  public_key.mul(&rand) returns the multiple and its result
\* is dropped: public_key itself goes on, normalized.
PairTerm(msg, g1_point, domain, rand) ==
    LET hash_point == ECP_affine(hash_on_g2(msg, domain))
        public_key == g1_point
        dropped    == ECP_mul(public_key, BigNum_new_int(rand))
    IN  [g2 |-> hash_point, g1 |-> ECP_affine(public_key)]

\* Lines 216-228: msgs.zip(g1_points).for_each, the first n pairs.
RECURSIVE PairTerms(_, _, _)
PairTerms(set, rand, n) ==
    IF n = 0 THEN <<>>
    ELSE Append(PairTerms(set, rand, n - 1),
                PairTerm(set.msgs[n], set.keys[n], set.domain, rand))

RECURSIVE AccumulateAll(_, _)
AccumulateAll(acc, terms) ==
    IF terms = <<>> THEN acc
    ELSE AccumulateAll(pair_another(acc, Head(terms).g2, Head(terms).g1), Tail(terms))

\* Lines 231-233: temp_sig is an immutable clone; temp_sig.mul(&rand) returns
\* the multiple and its result is dropped: temp_sig itself is added.
SigTerm(g2_point, rand) ==
    LET temp_sig == g2_point
        dropped  == ECP_mul(temp_sig, BigNum_new_int(rand))
    IN  temp_sig

\* Lines 206-209: the next set has key and message lists of different length.
VMS_LengthMismatch ==
    /\ vms_ret = "running"
    /\ next_set < Len(signature_sets)
    /\ Len(CurrentSet.keys) # Len(CurrentSet.msgs)
    /\ next_set' = next_set + 1
    /\ vms_ret' = "false"
    /\ UNCHANGED <<signature_sets, final_agg_sig, r, rands, calls, added, n_miller, n_fexp>>
    /\ UNCHANGED <<verify_vars, vm_vars, codec_vars, monoid_vars, serial_vars>>

\* Lines 211-213 in a build with overflow checks: the bytes drawn are
\* i64::MIN and abs() panics.
VMS_AbsPanic(bytes) ==
    /\ vms_ret = "running"
    /\ next_set < Len(signature_sets)
    /\ Len(CurrentSet.keys) = Len(CurrentSet.msgs)
    /\ i64_abs_overflows(i64_from_be_bytes(bytes))
    /\ next_set' = next_set + 1
    /\ vms_ret' = "panic"
    /\ UNCHANGED <<signature_sets, final_agg_sig, r, rands, calls, added, n_miller, n_fexp>>
    /\ UNCHANGED <<verify_vars, vm_vars, codec_vars, monoid_vars, serial_vars>>

\* Lines 206-234, one pass of the loop: draw the scalar, accumulate the
\* pairs of the set and add its signature to the running total.
VMS_Accumulate(bytes) ==
    /\ vms_ret = "running"
    /\ next_set < Len(signature_sets)
    /\ Len(CurrentSet.keys) = Len(CurrentSet.msgs)
    /\ LET rand  == i64_abs(i64_from_be_bytes(bytes))
           terms == PairTerms(CurrentSet, rand, Min(Len(CurrentSet.msgs), Len(CurrentSet.keys)))
           term  == SigTerm(CurrentSet.sig, rand)
       IN  /\ rands' = Append(rands, rand)
           /\ calls' = calls \o terms
           /\ r' = AccumulateAll(r, terms)
           /\ added' = Append(added, term)
           /\ final_agg_sig' = ECP_add(final_agg_sig, term)
    /\ next_set' = next_set + 1
    /\ UNCHANGED <<signature_sets, n_miller, n_fexp, vms_ret>>
    /\ UNCHANGED <<verify_vars, vm_vars, codec_vars, monoid_vars, serial_vars>>

\* Lines 235-245: the iterator is exhausted.
VMS_Finish ==
    /\ vms_ret = "running"
    /\ next_set = Len(signature_sets)
    /\ LET fin         == ECP_affine(final_agg_sig)
           negative_g1 == ECP_neg(ECP_generator)
           r1          == pair_another(r, fin, negative_g1)
           v0          == pair_miller(r1)
           v1          == pair_fexp(v0)
       IN  /\ final_agg_sig' = fin
           /\ calls' = Append(calls, [g2 |-> fin, g1 |-> negative_g1])
           /\ r' = r1
           /\ vms_ret' = Bool(FP12_isunity(v1))
    /\ n_miller' = n_miller + 1
    /\ n_fexp' = n_fexp + 1
    /\ UNCHANGED <<signature_sets, next_set, rands, added>>
    /\ UNCHANGED <<verify_vars, vm_vars, codec_vars, monoid_vars, serial_vars>>

NextBatch ==
    \/ VMS_LengthMismatch
    \/ \E bytes \in RandOutputs : VMS_AbsPanic(bytes)
    \/ \E bytes \in RandOutputs : VMS_Accumulate(bytes)
    \/ VMS_Finish

SpecBatch == InitBatch /\ [][NextBatch]_vars

(***************************************************************************)
(* Properties of verify_multiple_signatures                                *)
(***************************************************************************)

BatchDone == vms_ret \notin {"idle", "running"}

\* The sum of the signatures by the first n keys of the set over the paired
\* messages, under the set's domain (the key's scalar is its secret key).
RECURSIVE SumOfSignatures(_, _)
SumOfSignatures(set, n) ==
    IF n = 0 THEN AggregateSignature_new
    ELSE AggregateSignature_add(SumOfSignatures(set, n - 1),
                                Signature_new(set.msgs[n], set.domain, set.keys[n].e))

\* The set is honestly built.
SetHonest(set) ==
    /\ Len(set.keys) = Len(set.msgs)
    /\ set.sig.e = SumOfSignatures(set, Len(set.msgs)).e

\* The exponent of the product of e(H(msg_j, domain), k * key_j) over the
\* first n pairs of the set.
RECURSIVE PairProduct(_, _, _)
PairProduct(set, k, n) ==
    IF n = 0 THEN 0
    ELSE (PairProduct(set, k, n - 1)
            + hash_on_g2(set.msgs[n], set.domain).e * ECP_mul(set.keys[n], k).e)
         % CURVE_ORDER

\* The set alone is a valid aggregate signature:
\* prod e(H(msg_j, domain), key_j) * e(sig, -G1) is the identity.
SetValid(set) ==
    /\ Len(set.keys) = Len(set.msgs)
    /\ (PairProduct(set, 1, Len(set.msgs)) + set.sig.e * ECP_neg(ECP_generator).e)
          % CURVE_ORDER = 0

\* C4 as claimed: a batch of n >= 1 honestly built sets is accepted, whatever
\* the random source yields.
C4_HonestBatchAccepted ==
    (/\ BatchDone
     /\ Len(signature_sets) >= 1
     /\ \A i \in 1..Len(signature_sets) : SetHonest(signature_sets[i]))
    => vms_ret = "true"

\* The scalar of the i-th set processed, modulo the group order.
Scalar(i) == BigNum_new_int(rands[i])

\* The exponent of the blinded product of the sets 1..n: the product of
\* e(H(msg_j, domain_i), r_i * key_j) times e(sum of r_i * sig_i, -G1).
RECURSIVE BlindedProduct(_)
BlindedProduct(n) ==
    IF n = 0 THEN 0
    ELSE LET set == signature_sets[n]
         IN  (BlindedProduct(n - 1)
                + PairProduct(set, Scalar(n), Len(set.msgs))
                + ECP_mul(set.sig, Scalar(n)).e * ECP_neg(ECP_generator).e)
             % CURVE_ORDER

\* The G1 arguments r_i * key_j the sets 1..n are meant to hand to
\* pair::another, in order.
RECURSIVE BlindedKeys(_)
BlindedKeys(n) ==
    IF n = 0 THEN <<>>
    ELSE LET set == signature_sets[n]
         IN  BlindedKeys(n - 1)
               \o [j \in 1..Len(set.keys) |-> ECP_mul(set.keys[j], Scalar(n)).e]

\* C5 as claimed: the blinding scalar is applied.  The point added to the
\* running total for set i is r_i * signature_i, every key of set i enters
\* its pairing term as r_i * key_j, and the call accepts iff the product of
\* the blinded terms is the identity.
C5_BlindingApplied ==
    /\ \A i \in 1..Len(added) :
          added[i].e = ECP_mul(signature_sets[i].sig, Scalar(i)).e
    /\ LET keys == BlindedKeys(Len(rands))
       IN  \A c \in 1..Len(keys) : calls[c].g1.e = keys[c]
    /\ n_fexp = 1 => (vms_ret = "true" <=> BlindedProduct(Len(rands)) = 0)

\* C6 as claimed: the call returns true only if every set of the batch is
\* individually valid.
C6_AcceptsOnlyValidSets ==
    vms_ret = "true" => \A i \in 1..Len(signature_sets) : SetValid(signature_sets[i])

\* C7 as claimed: every scalar derived is in [1, r), never zero and never
\* negative, deriving it never faults, and one scalar is drawn per set.
C7_ScalarInRange ==
    /\ vms_ret # "panic"
    /\ Len(rands) = Len(added)
    /\ \A i \in 1..Len(rands) : ~i64_is_negative(rands[i]) /\ rands[i] # I64_ZERO

HasLengthMismatch ==
    \E i \in 1..Len(signature_sets) :
        Len(signature_sets[i].keys) # Len(signature_sets[i].msgs)

\* C8 as claimed: the call returns false whenever any set of the batch has a
\* key list and a message list of different lengths.
C8_LengthMismatchRejected == (BatchDone /\ HasLengthMismatch) => vms_ret = "false"

\* C9 as claimed: the call returns false for an empty sequence of sets, for a
\* set whose key list and message list are both empty, and for a set with a
\* message that is not MSG_LENGTH bytes long.
C9_MalformedRejected ==
    (/\ BatchDone
     /\ \/ signature_sets = <<>>
        \/ \E i \in 1..Len(signature_sets) :
              signature_sets[i].keys = <<>> /\ signature_sets[i].msgs = <<>>
        \/ \E i \in 1..Len(signature_sets) :
              \E j \in 1..Len(signature_sets[i].msgs) :
                  MsgLen(signature_sets[i].msgs[j]) # MSG_LENGTH)
    => vms_ret = "false"

\* The position of the first set whose key and message lists differ in
\* length; 0 when there is none.
FirstMismatch ==
    IF HasLengthMismatch
    THEN CHOOSE i \in 1..Len(signature_sets) :
             /\ Len(signature_sets[i].keys) # Len(signature_sets[i].msgs)
             /\ \A j \in 1..(i - 1) :
                    Len(signature_sets[j].keys) = Len(signature_sets[j].msgs)
    ELSE 0

\* The call made no Miller-loop finalize and no final exponentiation.
NoFinalize == n_miller = 0 /\ n_fexp = 0

\* The call stopped at the first mismatching set: false, scalars drawn for
\* the sets before it only, no later set pulled, nothing finalized.
StoppedAtMismatch ==
    /\ vms_ret = "false"
    /\ next_set = FirstMismatch
    /\ Len(rands) = FirstMismatch - 1
    /\ NoFinalize

\* The call ran over every set and finalized once, after the last set.
FinalizedOnce ==
    /\ next_set = Len(signature_sets)
    /\ Len(rands) = Len(signature_sets)
    /\ n_miller = 1 /\ n_fexp = 1

\* C26 as claimed: when set i is the first set whose key and message lists
\* differ in length, the call returns false immediately, with scalars drawn
\* only for the sets before i, no later set pulled from the iterator and no
\* finalize or final exponentiation run; a call with no mismatch runs exactly
\* one finalize and one final exponentiation, after the last set.
C26_EarlyReturnOnMismatch ==
    /\ ~BatchDone => NoFinalize
    /\ (BatchDone /\ HasLengthMismatch) => StoppedAtMismatch
    /\ (BatchDone /\ ~HasLengthMismatch) => FinalizedOnce

(***************************************************************************)
(* verify_multiple: its input                                              *)
(***************************************************************************)

\* Largest number of messages, of aggregate public keys, handed to a call.
MaxPairs == 2

\* The points an AggregateSignature or an AggregatePublicKey can hold: that
\* of new(), or the outcome of add (any group element, not normalized).
AggregatePoints ==
    {ECP_new} \cup {ECP_add(ECP_new, P) : P \in Point}

MultipleMsgs == UNION {[1..n -> Msgs] : n \in 0..MaxPairs}
MultipleKeys == UNION {[1..n -> AggregatePoints] : n \in 0..MaxPairs}

(***************************************************************************)
(* verify_multiple (aggregates.rs:149-189)                                 *)
(***************************************************************************)

\* The call is entered: its arguments are bound.
InitMultiple ==
    /\ SerialIdle
    /\ VerifyIdle
    /\ BatchIdle
    /\ CodecIdle
    /\ MonoidIdle
    /\ vm_self \in AggregatePoints
    /\ vm_msg \in MultipleMsgs
    /\ vm_domain \in Domains
    /\ vm_apks \in MultipleKeys
    /\ vm_i = 0
    /\ vm_r = pair_initmp
    /\ vm_calls = <<>>
    /\ vm_n_miller = 0
    /\ vm_n_fexp = 0
    /\ vm_ret = "start"

\* Line 159 with the count check only.
verify_multiple_count_mismatch(msg, apks) == Len(msg) # Len(apks)

\* Line 159 refusing a single pair as well as none.
verify_multiple_needs_two_pairs(msg, apks) ==
    Len(msg) # Len(apks) \/ Len(apks) < 2

\* Line 159: msg.len() != apks.len() || apks.is_empty()
verify_multiple_precondition_fails(msg, apks) ==
    Len(msg) # Len(apks) \/ apks = <<>>

\* Lines 155-161, the precondition fails: return false.
VM_Reject ==
    /\ vm_ret = "start"
    /\ verify_multiple_precondition_fails(vm_msg, vm_apks)
    /\ vm_ret' = "false"
    /\ UNCHANGED <<vm_self, vm_msg, vm_domain, vm_apks, vm_i, vm_r, vm_calls,
                   vm_n_miller, vm_n_fexp>>
    /\ UNCHANGED <<verify_vars, batch_vars, codec_vars, monoid_vars, serial_vars>>

\* Lines 155-164, the precondition holds: r = pair::initmp().
VM_Enter ==
    /\ vm_ret = "start"
    /\ ~verify_multiple_precondition_fails(vm_msg, vm_apks)
    /\ vm_r' = pair_initmp
    /\ vm_ret' = "loop"
    /\ UNCHANGED <<vm_self, vm_msg, vm_domain, vm_apks, vm_i, vm_calls,
                   vm_n_miller, vm_n_fexp>>
    /\ UNCHANGED <<verify_vars, batch_vars, codec_vars, monoid_vars, serial_vars>>

\* Lines 166-178, one pass of the loop over apks.  msg[i] is a checked index:
\* out of bounds it panics.
VM_Pair ==
    /\ vm_ret = "loop"
    /\ vm_i < Len(vm_apks)
    /\ LET i         == vm_i + 1
           key_point == ECP_affine(vm_apks[i])
       IN  IF i > Len(vm_msg)
           THEN vm_ret' = "panic" /\ UNCHANGED <<vm_r, vm_calls>>
           ELSE IF MsgLen(vm_msg[i]) # MSG_LENGTH
           THEN vm_ret' = "false" /\ UNCHANGED <<vm_r, vm_calls>>
           ELSE LET hash_point == ECP_affine(hash_on_g2(vm_msg[i], vm_domain))
                IN  /\ vm_r' = pair_another(vm_r, hash_point, key_point)
                    /\ vm_calls' = Append(vm_calls, [g2 |-> hash_point, g1 |-> key_point])
                    /\ vm_ret' = "loop"
    /\ vm_i' = vm_i + 1
    /\ UNCHANGED <<vm_self, vm_msg, vm_domain, vm_apks, vm_n_miller, vm_n_fexp>>
    /\ UNCHANGED <<verify_vars, batch_vars, codec_vars, monoid_vars, serial_vars>>

\* Lines 180-188: the signature pairing, then miller, fexp and isunity.
VM_Finish ==
    /\ vm_ret = "loop"
    /\ vm_i = Len(vm_apks)
    /\ LET sig_point   == ECP_affine(vm_self)
           negative_g1 == ECP_neg(ECP_generator)
           r1          == pair_another(vm_r, sig_point, negative_g1)
           v0          == pair_miller(r1)
           v1          == pair_fexp(v0)
       IN  /\ vm_r' = r1
           /\ vm_calls' = Append(vm_calls, [g2 |-> sig_point, g1 |-> negative_g1])
           /\ vm_ret' = Bool(FP12_isunity(v1))
    /\ vm_n_miller' = vm_n_miller + 1
    /\ vm_n_fexp' = vm_n_fexp + 1
    /\ UNCHANGED <<vm_self, vm_msg, vm_domain, vm_apks, vm_i>>
    /\ UNCHANGED <<verify_vars, batch_vars, codec_vars, monoid_vars, serial_vars>>

NextMultiple ==
    \/ VM_Reject
    \/ VM_Enter
    \/ VM_Pair
    \/ VM_Finish

SpecMultiple == InitMultiple /\ [][NextMultiple]_vars

(***************************************************************************)
(* Properties of verify_multiple                                           *)
(***************************************************************************)

MultipleDone == vm_ret \in {"true", "false", "panic"}

\* Some message of the call is not MSG_LENGTH bytes long.
HasBadMessage == \E j \in 1..Len(vm_msg) : MsgLen(vm_msg[j]) # MSG_LENGTH

\* The exponent of the sum of sk_j * H(msg_j, domain) over the first n pairs,
\* sk_j being the scalar of apks[j]: what the signers of the n groups add up to.
RECURSIVE MultipleSigned(_)
MultipleSigned(n) ==
    IF n = 0 THEN 0
    ELSE (MultipleSigned(n - 1)
            + ECP_mul(hash_on_g2(vm_msg[n], vm_domain), vm_apks[n].e).e) % CURVE_ORDER

\* C10: verify_multiple returns false, and does not fault, when the numbers
\* of messages and of aggregate keys differ, when both lists are empty, and
\* when any message is not MSG_LENGTH bytes long (correctly signed or not,
\* wherever it sits in the list).
C10_MultipleRejectsMalformed ==
    /\ vm_ret # "panic"
    /\ (/\ MultipleDone
        /\ \/ Len(vm_msg) # Len(vm_apks)
           \/ vm_msg = <<>> /\ vm_apks = <<>>
           \/ HasBadMessage)
       => vm_ret = "false"

\* A correctly signed MaxPairs-pair call whose last message alone is one byte
\* too long has been rejected, after the pairs before it were accumulated.
C10_Witness ==
    /\ vm_ret = "false"
    /\ Len(vm_msg) = MaxPairs /\ Len(vm_apks) = MaxPairs
    /\ \A j \in 1..MaxPairs : ~ECP_is_infinity(vm_apks[j])
    /\ \A j \in 1..MaxPairs : MsgLen(vm_msg[j]) # MSG_LENGTH <=> j = MaxPairs
    /\ vm_self.e = MultipleSigned(MaxPairs)
    /\ vm_i = MaxPairs /\ Len(vm_calls) = MaxPairs - 1
    /\ vm_n_miller = 0 /\ vm_n_fexp = 0

\* The call has equally many messages and keys, at least one, and every
\* message is MSG_LENGTH bytes long.
MultipleWellFormed ==
    /\ Len(vm_msg) = Len(vm_apks)
    /\ Len(vm_apks) >= 1
    /\ ~HasBadMessage

\* C11: verify_multiple returns true when the receiver is the sum of the
\* signatures of k >= 1 groups, the members of group i signed the 32-byte
\* message i under the domain of the call, and apks[i] is the sum of the
\* public keys of group i.
C11_MultipleHonestAccepted ==
    (/\ MultipleDone
     /\ MultipleWellFormed
     /\ vm_self.e = MultipleSigned(Len(vm_apks)))
    => vm_ret = "true"

\* MaxPairs groups with keys other than the identity, not all over the same
\* message, whose signatures do not add up to the identity, were accepted.
C11_Witness ==
    /\ vm_ret = "true"
    /\ Len(vm_apks) = MaxPairs /\ MultipleWellFormed
    /\ \A j \in 1..MaxPairs : ~ECP_is_infinity(vm_apks[j])
    /\ \E j \in 2..MaxPairs : vm_msg[j] # vm_msg[1]
    /\ vm_self.e = MultipleSigned(MaxPairs)
    /\ ~ECP_is_infinity(vm_self)
    /\ Len(vm_calls) = MaxPairs + 1

\* The exponent of k * H(msg, domain).
SignedPoint(msg, domain, k) == ECP_mul(hash_on_g2(msg, domain), k).e

\* The receiver is the sum of the signatures of groups whose keys and
\* messages are those of the call, except that the key of one signer
\* (secret key k) of group i is missing from apks[i].
MissingKeyCase ==
    \E i \in 1..Len(vm_apks), k \in SecretKeys :
        vm_self.e = (MultipleSigned(Len(vm_apks))
                       + SignedPoint(vm_msg[i], vm_domain, k)) % CURVE_ORDER

\* As above, except that apks[i] holds the key of one signer of group i
\* (secret key k) once more than the signer signed.
ExtraKeyCase ==
    \E i \in 1..Len(vm_apks), k \in SecretKeys :
        vm_self.e = (MultipleSigned(Len(vm_apks))
                       + SignedPoint(vm_msg[i], vm_domain, CURVE_ORDER - k)) % CURVE_ORDER

\* As above with every key right, except that group i signed the 32-byte
\* message m and not the message i of the call.
WrongMessageAt(i, m) ==
    /\ m # vm_msg[i]
    /\ vm_self.e = (MultipleSigned(Len(vm_apks))
                      + SignedPoint(vm_msg[i], vm_domain, CURVE_ORDER - vm_apks[i].e)
                      + SignedPoint(m, vm_domain, vm_apks[i].e)) % CURVE_ORDER

WrongMessageCase ==
    \E i \in 1..Len(vm_apks), m \in SignMsgs : WrongMessageAt(i, m)

\* C12 as claimed: verify_multiple returns false when an aggregate public
\* key misses the key of a signer, when it holds a key once too often, and
\* when a supplied 32-byte message is not the message the group signed.
C12_MultipleNegativeCasesFail ==
    (/\ MultipleDone
     /\ MultipleWellFormed
     /\ MissingKeyCase \/ ExtraKeyCase \/ WrongMessageCase)
    => vm_ret = "false"

(***************************************************************************)
(* verify_multiple against verify, and the calls verify_multiple makes     *)
(***************************************************************************)

\* The call has one message and one aggregate key.
SinglePair == Len(vm_msg) = 1 /\ Len(vm_apks) = 1

\* What verify returns for the only pair of the call.
VerifyOfPair == Bool(verify(vm_self, vm_msg[1], vm_domain, vm_apks[1]))

\* C24: for a 32-byte message, verify(msg, domain, apk) and
\* verify_multiple([msg], domain, [apk]) return the same result; for a
\* message of another length they differ only by verify_multiple returning
\* false.
C24_SinglePairAgreesWithVerify ==
    (MultipleDone /\ SinglePair)
    => /\ MsgLen(vm_msg[1]) = MSG_LENGTH => vm_ret = VerifyOfPair
       /\ vm_ret # VerifyOfPair => vm_ret = "false"

\* A single pair over a 32-byte message, with a key and a signature other
\* than the identity, was accepted by verify_multiple (and is by verify).
C24_Witness ==
    /\ SinglePair /\ vm_ret = "true"
    /\ MsgLen(vm_msg[1]) = MSG_LENGTH
    /\ ~ECP_is_infinity(vm_apks[1]) /\ ~ECP_is_infinity(vm_self)
    /\ VerifyOfPair = "true"

\* The arguments of the k + 1 accumulate calls of a call over k pairs: the
\* hash of message i with key i, for each pair in order, then the signature
\* with the negated generator.
ExpectedCalls ==
    [i \in 1..(Len(vm_apks) + 1) |->
        IF i <= Len(vm_apks)
        THEN [g2 |-> ECP_affine(hash_on_g2(vm_msg[i], vm_domain)),
              g1 |-> ECP_affine(vm_apks[i])]
        ELSE [g2 |-> ECP_affine(vm_self), g1 |-> ECP_neg(ECP_generator)]]

\* C25: a verify_multiple call over k pairs that passes its precondition
\* checks makes exactly k + 1 pairing-accumulate calls (one per pair, then
\* one for the signature with the negated generator), followed by exactly one
\* Miller-loop finalize and one final exponentiation; a call that returns
\* false on a precondition makes no finalize and no final exponentiation.
C25_CallCounts ==
    /\ (MultipleDone /\ MultipleWellFormed)
       => /\ vm_calls = ExpectedCalls
          /\ vm_n_miller = 1 /\ vm_n_fexp = 1
    /\ (MultipleDone /\ ~MultipleWellFormed)
       => /\ vm_ret = "false"
          /\ vm_n_miller = 0 /\ vm_n_fexp = 0
    /\ ~MultipleDone
       => /\ vm_n_miller = 0 /\ vm_n_fexp = 0
          /\ Len(vm_calls) = vm_i /\ vm_i <= Len(vm_apks)

\* A call over MaxPairs pairs ran to the end: MaxPairs + 1 accumulate calls,
\* one finalize, one final exponentiation.
C25_Witness ==
    /\ MultipleDone /\ MultipleWellFormed
    /\ Len(vm_apks) = MaxPairs
    /\ Len(vm_calls) = MaxPairs + 1
    /\ vm_n_miller = 1 /\ vm_n_fexp = 1

(***************************************************************************)
(* The domain                                                              *)
(***************************************************************************)

\* C13 as claimed: the domain is mixed into the hash of the message.  An
\* aggregate signature produced under SIGN_DOMAIN by signers whose keys make
\* up the aggregate key (and do not add up to the identity) does not verify
\* under another domain with the same message and keys.
C13_OtherDomainFails ==
    (/\ Called
     /\ v_domain # SIGN_DOMAIN
     /\ NSigs >= 1
     /\ SameKeys
     /\ AllSigned(v_msg)
     /\ SignerKeySum # 0)
    => ret = "false"

(***************************************************************************)
(* The point codec (amcl_utils.rs): the provider's field and curves        *)
(*                                                                         *)
(* The codec reads and writes coordinates, so here a point is held as the  *)
(* provider holds it: projective coordinates (x, y, z) over the base field *)
(* F_p for G1 and over F_p^2 = F_p[i]/(i^2 + 1) for G2, standing for the   *)
(* affine point (x/z, y/z); z = 0 is the point at infinity.  The curves    *)
(* are y^2 = x^3 + CURVE_B over F_p and y^2 = x^3 + CURVE_B*i over F_p^2,  *)
(* for a small prime p = 3 mod 4: both groups have a subgroup of order     *)
(* CURVE_ORDER and a cofactor larger than one, as the program's curves do. *)
(***************************************************************************)

\* rom::MODULUS, the field prime p, and rom::CURVE_B_I
MODULUS == 59
CURVE_B == 4

\* big::MODBYTES, the number of bytes of a field element, whose top three
\* bits are never set in a reduced element (2^(8 * MODBYTES - 3) > p)
MODBYTES == 2

\* Byte size of an (uncompressed) element of G1, of G2
G1_BYTE_SIZE == 2 * MODBYTES
G2_BYTE_SIZE == 4 * MODBYTES

FP == 0..(MODULUS - 1)

FP_add(a, b) == (a + b) % MODULUS
FP_sub(a, b) == (a + MODULUS - b) % MODULUS
FP_neg(a) == (MODULUS - a) % MODULUS
FP_mul(a, b) == (a * b) % MODULUS

\* The inverses of the nonzero elements of F_p.
FP_inverses == [a \in 1..(MODULUS - 1) |-> CHOOSE z \in FP : FP_mul(a, z) = 1]
FP_inv(a) == FP_inverses[a]

\* The square roots of the squares of F_p: the smaller of the two roots.
FP_roots ==
    [a \in {FP_mul(y, y) : y \in FP} |->
        CHOOSE y \in FP : FP_mul(y, y) = a /\ \A w \in FP : FP_mul(w, w) = a => y <= w]

\* FP::jacobi(): 1 for a nonzero square, 0 for zero, -1 otherwise
FP_jacobi(a) ==
    IF a = 0 THEN 0 ELSE IF a \in DOMAIN FP_roots THEN 1 ELSE -1

\* Big::comp(a, b): -1, 0 or 1
Big_comp(a, b) == IF a < b THEN -1 ELSE IF a = b THEN 0 ELSE 1

\* Big::frombytes: the number the bytes hold, big-endian
RECURSIVE Big_frombytes(_)
Big_frombytes(b) ==
    IF b = <<>> THEN 0
    ELSE Big_frombytes(SubSeq(b, 1, Len(b) - 1)) * 256 + b[Len(b)]

\* Big::tobytes: the n big-endian bytes of v
RECURSIVE Big_tobytes(_, _)
Big_tobytes(v, n) ==
    IF n = 0 THEN <<>>
    ELSE Append(Big_tobytes(v \div 256, n - 1), v % 256)

\* An element a + b*i of F_p^2 (FP2::new_bigs(a, b)), and its parts
FP2_new_bigs(a, b) == [a |-> a % MODULUS, b |-> b % MODULUS]
FP2_geta(x) == x.a
FP2_getb(x) == x.b
FP2_zero == FP2_new_bigs(0, 0)
FP2_one == FP2_new_bigs(1, 0)

FP2_add(x, y) == [a |-> FP_add(x.a, y.a), b |-> FP_add(x.b, y.b)]
FP2_sub(x, y) == [a |-> FP_sub(x.a, y.a), b |-> FP_sub(x.b, y.b)]
FP2_neg(x) == [a |-> FP_neg(x.a), b |-> FP_neg(x.b)]
FP2_mul(x, y) ==
    [a |-> FP_sub(FP_mul(x.a, y.a), FP_mul(x.b, y.b)),
     b |-> FP_add(FP_mul(x.a, y.b), FP_mul(x.b, y.a))]
FP2_inv(x) ==
    LET n == FP_inv(FP_add(FP_mul(x.a, x.a), FP_mul(x.b, x.b)))
    IN  [a |-> FP_mul(x.a, n), b |-> FP_mul(FP_neg(x.b), n)]

\* The square roots c + d*i of x in F_p^2: c^2 - d^2 = x.a and 2*c*d = x.b.
FP2_root_set(x) ==
    {[a |-> c, b |-> FP_mul(x.b, FP_inv(FP_mul(2, c)))] : c \in 1..(MODULUS - 1)}
      \cup {[a |-> 0, b |-> d] : d \in FP}
FP2_roots(x) == {y \in FP2_root_set(x) : FP2_mul(y, y) = x}
FP2_is_square(x) == FP2_roots(x) # {}

(***************************************************************************)
(* The provider's G1 (ecp.rs)                                              *)
(***************************************************************************)

\* ECP::new(): the point at infinity
GroupG1_new == [x |-> 0, y |-> 1, z |-> 0]

\* is_infinity()
GroupG1_is_infinity(P) == P.x = 0 /\ P.z = 0

\* affine(): divide by z
GroupG1_affine(P) ==
    IF GroupG1_is_infinity(P) THEN P
    ELSE [x |-> FP_mul(P.x, FP_inv(P.z)), y |-> FP_mul(P.y, FP_inv(P.z)), z |-> 1]

\* neg()
GroupG1_neg(P) == [P EXCEPT !.y = FP_neg(P.y)]

\* gety(): the affine y coordinate
GroupG1_gety(P) == GroupG1_affine(P).y

\* equals(): the same point, in whatever representation
GroupG1_equals(P, Q) ==
    IF GroupG1_is_infinity(P) \/ GroupG1_is_infinity(Q)
    THEN GroupG1_is_infinity(P) /\ GroupG1_is_infinity(Q)
    ELSE /\ FP_mul(P.x, Q.z) = FP_mul(Q.x, P.z)
         /\ FP_mul(P.y, Q.z) = FP_mul(Q.y, P.z)

\* The right-hand side x^3 + CURVE_B of the curve equation
GroupG1_rhs(x) == FP_add(FP_mul(x, FP_mul(x, x)), CURVE_B)

\* tobytes(b, true): one format byte (2 or 3, by the parity of y), then the
\* MODBYTES big-endian bytes of the affine x
GroupG1_tobytes(P) ==
    LET W == GroupG1_affine(P)
    IN  <<2 + (W.y % 2)>> \o Big_tobytes(W.x, MODBYTES)

\* ECP::new_big(ix): the point with x-coordinate ix (reduced modulo p) and
\* a square root of the right-hand side as y; infinity when the right-hand
\* side is not a nonzero square
GroupG1_new_big(ix) ==
    LET x   == ix % MODULUS
        rhs == GroupG1_rhs(x)
    IN  IF FP_jacobi(rhs) # 1 THEN GroupG1_new
        ELSE [x |-> x,
              y |-> IF cd_root = 0 THEN FP_roots[rhs] ELSE FP_neg(FP_roots[rhs]),
              z |-> 1]

\* add(): the sum of two points, by the chord-and-tangent rule
GroupG1_add(P0, Q0) ==
    LET P == GroupG1_affine(P0)
        Q == GroupG1_affine(Q0)
    IN  IF GroupG1_is_infinity(P) THEN Q
        ELSE IF GroupG1_is_infinity(Q) THEN P
        ELSE IF P.x = Q.x /\ FP_add(P.y, Q.y) = 0 THEN GroupG1_new
        ELSE LET l == IF P.x = Q.x
                      THEN FP_mul(FP_mul(3, FP_mul(P.x, P.x)), FP_inv(FP_mul(2, P.y)))
                      ELSE FP_mul(FP_sub(Q.y, P.y), FP_inv(FP_sub(Q.x, P.x)))
                 x == FP_sub(FP_sub(FP_mul(l, l), P.x), Q.x)
             IN  [x |-> x, y |-> FP_sub(FP_mul(l, FP_sub(P.x, x)), P.y), z |-> 1]

\* mul(k): k times the point
RECURSIVE GroupG1_mul(_, _)
GroupG1_mul(P, k) ==
    IF k = 0 THEN GroupG1_new ELSE GroupG1_add(GroupG1_mul(P, k - 1), P)

\* ECP::generator(): the generator (rom::CURVE_GX, rom::CURVE_GY) of the
\* subgroup of order CURVE_ORDER
GroupG1_generator == [x |-> 17, y |-> 16, z |-> 1]

\* The point is on the curve, is in the subgroup of order CURVE_ORDER.
GroupG1_on_curve(P) ==
    \/ GroupG1_is_infinity(P)
    \/ LET W == GroupG1_affine(P) IN FP_mul(W.y, W.y) = GroupG1_rhs(W.x)
GroupG1_in_subgroup(P) ==
    GroupG1_on_curve(P) /\ GroupG1_is_infinity(GroupG1_mul(P, CURVE_ORDER))

(***************************************************************************)
(* The provider's G2 (ecp2.rs)                                             *)
(***************************************************************************)

GroupG2_new == [x |-> FP2_zero, y |-> FP2_one, z |-> FP2_zero]

GroupG2_is_infinity(P) == P.x = FP2_zero /\ P.z = FP2_zero

GroupG2_affine(P) ==
    IF GroupG2_is_infinity(P) THEN P
    ELSE [x |-> FP2_mul(P.x, FP2_inv(P.z)), y |-> FP2_mul(P.y, FP2_inv(P.z)),
          z |-> FP2_one]

GroupG2_neg(P) == [P EXCEPT !.y = FP2_neg(P.y)]

GroupG2_getx(P) == GroupG2_affine(P).x
GroupG2_gety(P) == GroupG2_affine(P).y

GroupG2_equals(P, Q) ==
    IF GroupG2_is_infinity(P) \/ GroupG2_is_infinity(Q)
    THEN GroupG2_is_infinity(P) /\ GroupG2_is_infinity(Q)
    ELSE /\ FP2_mul(P.x, Q.z) = FP2_mul(Q.x, P.z)
         /\ FP2_mul(P.y, Q.z) = FP2_mul(Q.y, P.z)

\* The right-hand side x^3 + CURVE_B*i of the curve equation
GroupG2_rhs(x) == FP2_add(FP2_mul(x, FP2_mul(x, x)), FP2_new_bigs(0, CURVE_B))

\* tobytes(b): x.a, x.b, y.a, y.b of the affine point, MODBYTES big-endian
\* bytes each: real part first
GroupG2_tobytes(P) ==
    LET W == GroupG2_affine(P)
    IN  Big_tobytes(FP2_geta(W.x), MODBYTES) \o Big_tobytes(FP2_getb(W.x), MODBYTES)
          \o Big_tobytes(FP2_geta(W.y), MODBYTES) \o Big_tobytes(FP2_getb(W.y), MODBYTES)

\* The smaller of the square roots of a square: by real part, then by
\* imaginary part.
FP2_sqrt(x) ==
    CHOOSE y \in FP2_roots(x) :
        \A w \in FP2_roots(x) : y.a < w.a \/ (y.a = w.a /\ y.b <= w.b)

\* ECP2::new_fp2(ix): the point with x-coordinate ix and a square root of
\* the right-hand side as y (FP2::sqrt succeeds on zero); infinity when the
\* right-hand side is not a square
GroupG2_new_fp2(ix) ==
    LET rhs == GroupG2_rhs(ix)
    IN  IF ~FP2_is_square(rhs) THEN GroupG2_new
        ELSE [x |-> ix,
              y |-> IF cd_root = 0 THEN FP2_sqrt(rhs) ELSE FP2_neg(FP2_sqrt(rhs)),
              z |-> FP2_one]

GroupG2_add(P0, Q0) ==
    LET P == GroupG2_affine(P0)
        Q == GroupG2_affine(Q0)
    IN  IF GroupG2_is_infinity(P) THEN Q
        ELSE IF GroupG2_is_infinity(Q) THEN P
        ELSE IF P.x = Q.x /\ FP2_add(P.y, Q.y) = FP2_zero THEN GroupG2_new
        ELSE LET l == IF P.x = Q.x
                      THEN FP2_mul(FP2_mul(FP2_new_bigs(3, 0), FP2_mul(P.x, P.x)),
                                   FP2_inv(FP2_mul(FP2_new_bigs(2, 0), P.y)))
                      ELSE FP2_mul(FP2_sub(Q.y, P.y), FP2_inv(FP2_sub(Q.x, P.x)))
                 x == FP2_sub(FP2_sub(FP2_mul(l, l), P.x), Q.x)
             IN  [x |-> x, y |-> FP2_sub(FP2_mul(l, FP2_sub(P.x, x)), P.y),
                  z |-> FP2_one]

RECURSIVE GroupG2_mul(_, _)
GroupG2_mul(P, k) ==
    IF k = 0 THEN GroupG2_new ELSE GroupG2_add(GroupG2_mul(P, k - 1), P)

\* ECP2::generator(): the generator (rom::CURVE_PXA .. CURVE_PYB) of the
\* subgroup of order CURVE_ORDER
GroupG2_generator ==
    [x |-> FP2_new_bigs(1, 16), y |-> FP2_new_bigs(4, 55), z |-> FP2_one]

\* The subgroup of order CURVE_ORDER is the one the generator spans.
GroupG2_in_subgroup(P) ==
    \E k \in 0..(CURVE_ORDER - 1) :
        GroupG2_equals(P, GroupG2_mul(GroupG2_generator, k))

(***************************************************************************)
(* amcl_utils.rs: compress and decompress                                  *)
(***************************************************************************)

\* A u8 sum: above 255 the addition overflows, which is not a byte (-1).
u8_add(a, b) == IF a + b > 255 THEN -1 ELSE a + b

\* A vector of ones.
Ones(n) == [i \in 1..n |-> 1]

\* vec![0; n]
Zeros(n) == [i \in 1..n |-> 0]

\* What a step of the codec yields: a byte string, Ok(point) or Err(error).
BytesOf(b) == [kind |-> "bytes", val |-> b]
Ok(P) == [kind |-> "Ok", val |-> P]
Err_BadPoint(e) == [kind |-> "BadPoint", val |-> <<>>]
Err(e) == [kind |-> e, val |-> <<>>]

\* amcl_utils.rs:39 cmp_fp2: compare the imaginary parts, then the real parts
cmp_fp2(num1, num2) ==
    LET num1_b == FP2_getb(num1)
        num2_b == FP2_getb(num2)
        result == Big_comp(num1_b, num2_b)
    IN  IF result = 0
        THEN Big_comp(FP2_geta(num1), FP2_geta(num2))
        ELSE result

\* amcl_utils.rs:63 compress_g1
compress_g1(g1) ==
    IF GroupG1_is_infinity(g1)
    THEN [Zeros(G1_BYTE_SIZE \div 2) EXCEPT ![1] = 64 + 128]
    ELSE LET g1_bytes    == GroupG1_tobytes(g1)
             result      == Tail(g1_bytes)
             g1_copy     == GroupG1_affine(g1)
             y           == GroupG1_gety(g1_copy)
             y_neg       == GroupG1_gety(GroupG1_neg(g1_copy))
             is_y_larger == y > y_neg
             flagged     == IF is_y_larger
                            THEN [result EXCEPT ![1] = u8_add(@, 32)]
                            ELSE result
         IN  [flagged EXCEPT ![1] = u8_add(@, 128)]

\* A decoder that ignores the y-sign flag and returns the root the provider
\* yields.
decompress_g1_keep_root(g1_bytes) ==
    IF Len(g1_bytes) # MODBYTES THEN Err("IncorrectSize")
    ELSE IF g1_bytes[1] \div 128 # 1 THEN Err("InvalidCompressionFlag")
    ELSE IF (g1_bytes[1] % 128) \div 64 = 1
    THEN IF g1_bytes[1] % 64 # 0 \/ \E i \in 2..Len(g1_bytes) : g1_bytes[i] # 0
         THEN Err("BadPoint")
         ELSE Ok(GroupG1_new)
    ELSE LET point == GroupG1_new_big(
                          Big_frombytes([g1_bytes EXCEPT ![1] = @ % 32]))
         IN  IF GroupG1_is_infinity(point) THEN Err("BadPoint") ELSE Ok(point)

\* amcl_utils.rs:98 decompress_g1
decompress_g1(g1_bytes) ==
    IF Len(g1_bytes) # MODBYTES THEN Err("IncorrectSize")
    ELSE IF g1_bytes[1] \div 128 # 1 THEN Err("InvalidCompressionFlag")
    ELSE IF (g1_bytes[1] % 128) \div 64 = 1
    THEN IF g1_bytes[1] % 64 # 0 THEN Err("BadPoint")
         ELSE IF \E i \in 2..Len(g1_bytes) : g1_bytes[i] # 0 THEN Err("BadPoint")
         ELSE Ok(GroupG1_new)
    ELSE LET y_flag    == ((g1_bytes[1] % 64) \div 32) > 0
             masked    == [g1_bytes EXCEPT ![1] = @ % 32]
             x_big     == Big_frombytes(masked)
             point     == GroupG1_new_big(x_big)
             point_neg == GroupG1_neg(point)
         IN  IF GroupG1_is_infinity(point) THEN Err("BadPoint")
             ELSE IF (GroupG1_gety(point) > GroupG1_gety(point_neg)) # y_flag
             THEN Ok(point_neg)
             ELSE Ok(point)

\* compress_g2 with the halves of x in the provider's order: real, then
\* imaginary.
compress_g2_real_first(g2) ==
    IF GroupG2_is_infinity(g2)
    THEN [Zeros(G2_BYTE_SIZE \div 2) EXCEPT ![1] = u8_add(@, 64 + 128)]
    ELSE LET g2_bytes    == GroupG2_tobytes(g2)
             result      == SubSeq(g2_bytes, 1, MODBYTES * 2)
             g2_copy     == GroupG2_affine(g2)
             y           == GroupG2_gety(g2_copy)
             y_neg       == GroupG2_gety(GroupG2_neg(g2_copy))
             is_y_larger == cmp_fp2(y, y_neg) > 0
             flagged     == IF is_y_larger
                            THEN [result EXCEPT ![1] = u8_add(@, 32)]
                            ELSE result
         IN  [flagged EXCEPT ![1] = u8_add(@, 128)]

\* amcl_utils.rs:153 compress_g2
compress_g2(g2) ==
    IF GroupG2_is_infinity(g2)
    THEN [Zeros(G2_BYTE_SIZE \div 2) EXCEPT ![1] = u8_add(@, 64 + 128)]
    ELSE LET g2_bytes    == GroupG2_tobytes(g2)
             x_real      == SubSeq(g2_bytes, 1, MODBYTES)
             x_imaginary == SubSeq(g2_bytes, MODBYTES + 1, MODBYTES * 2)
             result      == x_imaginary \o x_real
             g2_copy     == GroupG2_affine(g2)
             y           == GroupG2_gety(g2_copy)
             y_neg       == GroupG2_gety(GroupG2_neg(g2_copy))
             is_y_larger == cmp_fp2(y, y_neg) > 0
             flagged     == IF is_y_larger
                            THEN [result EXCEPT ![1] = u8_add(@, 32)]
                            ELSE result
         IN  [flagged EXCEPT ![1] = u8_add(@, 128)]

\* amcl_utils.rs:193 decompress_g2
decompress_g2(g2_bytes) ==
    IF Len(g2_bytes) # G2_BYTE_SIZE \div 2 THEN Err("IncorrectSize")
    ELSE IF g2_bytes[1] \div 128 # 1 THEN Err("InvalidCompressionFlag")
    ELSE IF (g2_bytes[1] % 128) \div 64 = 1
    THEN IF g2_bytes[1] % 64 # 0 THEN Err("BadPoint")
         ELSE IF \E i \in 2..Len(g2_bytes) : g2_bytes[i] # 0 THEN Err("BadPoint")
         ELSE Ok(GroupG2_new)
    ELSE LET y_flag      == ((g2_bytes[1] % 64) \div 32) > 0
             masked      == [g2_bytes EXCEPT ![1] = @ % 32]
             x_imaginary == Big_frombytes(SubSeq(masked, 1, MODBYTES))
             x_real      == Big_frombytes(SubSeq(masked, MODBYTES + 1, Len(masked)))
             x           == FP2_new_bigs(x_real, x_imaginary)
             point       == GroupG2_new_fp2(x)
             point_neg   == GroupG2_neg(point)
         IN  IF GroupG2_is_infinity(point) THEN Err("BadPoint")
             ELSE IF (cmp_fp2(GroupG2_gety(point), GroupG2_gety(point_neg)) > 0) # y_flag
             THEN Ok(point_neg)
             ELSE Ok(point)

(***************************************************************************)
(* The codec: its inputs                                                   *)
(***************************************************************************)

\* Largest number of conversions applied in a row to one input.
MaxOps == 2

\* The point P held with z-coordinate z instead of 1.
GroupG1_projective(P, z) ==
    [x |-> FP_mul(P.x, z), y |-> FP_mul(P.y, z), z |-> FP_mul(P.z, z)]
GroupG2_projective(P, z) ==
    [x |-> FP2_mul(P.x, z), y |-> FP2_mul(P.y, z), z |-> FP2_mul(P.z, z)]

\* The valid points: the elements of the subgroup of order CURVE_ORDER, the
\* identity included, normalized and not.
G1Points ==
    {GroupG1_projective(GroupG1_mul(GroupG1_generator, k), z) :
        k \in 0..(CURVE_ORDER - 1), z \in {1, 2, MODULUS - 1}}
G2Points ==
    {GroupG2_projective(GroupG2_mul(GroupG2_generator, k), z) :
        k \in 0..(CURVE_ORDER - 1),
        z \in {FP2_one, FP2_new_bigs(0, 1), FP2_new_bigs(2, 3)}}

\* First bytes: every setting of the three flag bits, over the low bits
\* 0, 1 and 31.
FirstBytes == {32 * f + low : f \in 0..7, low \in {0, 1, 31}}

\* Byte strings handed to decompress_g1: every first byte above with every
\* last byte, and strings that are too short or too long.
G1Inputs ==
    {<<b0>> \o Zeros(MODBYTES - 2) \o <<b1>> : b0 \in FirstBytes, b1 \in 0..255}
      \cup {<<>>}
      \cup {<<b0>> \o Zeros(n) : b0 \in FirstBytes, n \in {MODBYTES - 2, MODBYTES}}

\* Low bytes of the imaginary and of the real part of x handed to
\* decompress_g2: coordinates of points of the subgroup, of other points of
\* the curve, of no point, and the same plus p.
G2ImagBytes == {0, 16, 27, 28, 38, 45, 16 + MODULUS, 38 + MODULUS}
G2RealBytes == {0, 1, 23, 54, 1 + MODULUS, 54 + MODULUS}

G2Inputs ==
    {<<b0>> \o Zeros(MODBYTES - 2) \o <<b1, b2>> \o Zeros(MODBYTES - 2) \o <<b3>> :
        b0 \in {32 * f + low : f \in 0..7, low \in {0, 1}},
        b1 \in G2ImagBytes, b2 \in {0, 1}, b3 \in G2RealBytes}
      \cup {<<>>}
      \cup {<<b0>> \o Zeros(n) :
              b0 \in FirstBytes, n \in {MODBYTES - 1, 2 * MODBYTES - 2, 2 * MODBYTES}}

(***************************************************************************)
(* The codec: one run                                                      *)
(***************************************************************************)

PointOf(P) == [kind |-> "point", val |-> P]

InitCodec ==
    /\ SerialIdle
    /\ VerifyIdle
    /\ BatchIdle
    /\ MultipleIdle
    /\ MonoidIdle
    /\ cd_root \in {0, 1}
    /\ \/ cd_group = "g1" /\ cd_input \in {PointOf(P) : P \in G1Points}
       \/ cd_group = "g1" /\ cd_input \in {BytesOf(b) : b \in G1Inputs}
       \/ cd_group = "g2" /\ cd_input \in {PointOf(P) : P \in G2Points}
       \/ cd_group = "g2" /\ cd_input \in {BytesOf(b) : b \in G2Inputs}
    /\ cd_steps = <<>>

\* The value the next conversion applies to.
Current == IF cd_steps = <<>> THEN cd_input ELSE cd_steps[Len(cd_steps)]

HoldsPoint == Current.kind \in {"point", "Ok"}
HoldsBytes == Current.kind = "bytes"

CompressG1 ==
    /\ cd_group = "g1" /\ Len(cd_steps) < MaxOps /\ HoldsPoint
    /\ cd_steps' = Append(cd_steps, BytesOf(compress_g1(Current.val)))
    /\ UNCHANGED <<cd_group, cd_root, cd_input>>
    /\ UNCHANGED <<verify_vars, batch_vars, vm_vars, monoid_vars, serial_vars>>

DecompressG1 ==
    /\ cd_group = "g1" /\ Len(cd_steps) < MaxOps /\ HoldsBytes
    /\ cd_steps' = Append(cd_steps, decompress_g1(Current.val))
    /\ UNCHANGED <<cd_group, cd_root, cd_input>>
    /\ UNCHANGED <<verify_vars, batch_vars, vm_vars, monoid_vars, serial_vars>>

CompressG2 ==
    /\ cd_group = "g2" /\ Len(cd_steps) < MaxOps /\ HoldsPoint
    /\ cd_steps' = Append(cd_steps, BytesOf(compress_g2(Current.val)))
    /\ UNCHANGED <<cd_group, cd_root, cd_input>>
    /\ UNCHANGED <<verify_vars, batch_vars, vm_vars, monoid_vars, serial_vars>>

DecompressG2 ==
    /\ cd_group = "g2" /\ Len(cd_steps) < MaxOps /\ HoldsBytes
    /\ cd_steps' = Append(cd_steps, decompress_g2(Current.val))
    /\ UNCHANGED <<cd_group, cd_root, cd_input>>
    /\ UNCHANGED <<verify_vars, batch_vars, vm_vars, monoid_vars, serial_vars>>

NextCodec ==
    \/ CompressG1
    \/ DecompressG1
    \/ CompressG2
    \/ DecompressG2

SpecCodec == InitCodec /\ [][NextCodec]_vars

(***************************************************************************)
(* Properties of the codec                                                 *)
(***************************************************************************)

\* The i-th value of the run: the input, then the result of each step.
Value(i) == IF i = 0 THEN cd_input ELSE cd_steps[i]

IsPoint(v) == v.kind \in {"point", "Ok"}
IsBytes(v) == v.kind = "bytes"

\* The provider's equality, subgroup and identity tests in the group of the run
CodecEquals(P, Q) ==
    IF cd_group = "g1" THEN GroupG1_equals(P, Q) ELSE GroupG2_equals(P, Q)
CodecInSubgroup(P) ==
    IF cd_group = "g1" THEN GroupG1_in_subgroup(P) ELSE GroupG2_in_subgroup(P)
CodecIsInfinity(P) ==
    IF cd_group = "g1" THEN GroupG1_is_infinity(P) ELSE GroupG2_is_infinity(P)

\* The length N of an encoding in the group of the run
EncodedSize == IF cd_group = "g1" THEN MODBYTES ELSE G2_BYTE_SIZE \div 2

\* C14: decompress(compress(p)) equals p for every valid point p of G1 and
\* of G2, the identity included, normalized or not.
C14_DecompressCompress ==
    \A i \in 0..(Len(cd_steps) - 2) :
        (IsPoint(Value(i)) /\ CodecInSubgroup(Value(i).val))
        => /\ Value(i + 2).kind = "Ok"
           /\ CodecEquals(Value(i + 2).val, Value(i).val)

\* A point of G2 other than the identity, not normalized, whose encoding has
\* the y-sign flag set, came back from compress and decompress although the
\* provider constructed the other root.
C14_Witness ==
    /\ cd_group = "g2" /\ cd_input.kind = "point" /\ Len(cd_steps) >= 2
    /\ ~GroupG2_is_infinity(cd_input.val)
    /\ cd_input.val.z # FP2_one
    /\ cd_steps[1].val[1] >= 128 + 32
    /\ cd_steps[2].kind = "Ok"
    /\ GroupG2_equals(cd_steps[2].val, cd_input.val)
    /\ cd_steps[2].val # GroupG2_new_fp2(GroupG2_getx(cd_input.val))

\* C15 as claimed: the encoding is canonical.  For every byte string that
\* decompress accepts, compress(decompress(b)) is b.
C15_CompressDecompress ==
    \A i \in 0..(Len(cd_steps) - 2) :
        (IsBytes(Value(i)) /\ Value(i + 1).kind = "Ok")
        => Value(i + 2).val = Value(i).val

\* C16: decompress returns IncorrectSize for every input of another length
\* than N, whatever its content, and InvalidCompressionFlag for every input
\* of length N whose byte 0 has bit 7 clear, whatever the other bits and
\* bytes.
C16_SizeThenFlag ==
    \A i \in 0..(Len(cd_steps) - 1) :
        IsBytes(Value(i))
        => LET b == Value(i).val
           IN  /\ Len(b) # EncodedSize => Value(i + 1).kind = "IncorrectSize"
               /\ (Len(b) = EncodedSize /\ b[1] < 128)
                     => Value(i + 1).kind = "InvalidCompressionFlag"

\* An input of the length of a G2 encoding with bit 7 clear, with the
\* infinity bit, the y-sign bit and a low bit set and a non-zero later byte,
\* got InvalidCompressionFlag.
C16_Witness ==
    /\ cd_group = "g2" /\ cd_input.kind = "bytes" /\ Len(cd_steps) >= 1
    /\ Len(cd_input.val) = EncodedSize
    /\ cd_input.val[1] = 64 + 32 + 1
    /\ \E j \in 2..EncodedSize : cd_input.val[j] # 0
    /\ cd_steps[1].kind = "InvalidCompressionFlag"

\* The encoding of the identity: 0xC0, then N - 1 zero bytes.
IdentityEncoding == [i \in 1..EncodedSize |-> IF i = 1 THEN 192 ELSE 0]

\* C17: compress(identity) is 0xC0 followed by N - 1 zero bytes; decompress
\* returns the identity for exactly that input, and BadPoint for every other
\* input of length N whose byte 0 has bits 7 and 6 set.
C17_IdentityEncoding ==
    \A i \in 0..(Len(cd_steps) - 1) :
        /\ (IsPoint(Value(i)) /\ CodecIsInfinity(Value(i).val))
              => Value(i + 1).val = IdentityEncoding
        /\ IsBytes(Value(i))
              => LET b == Value(i).val
                 IN  /\ b = IdentityEncoding
                        => (Value(i + 1).kind = "Ok" /\ CodecIsInfinity(Value(i + 1).val))
                     /\ (Value(i + 1).kind = "Ok" /\ CodecIsInfinity(Value(i + 1).val))
                        => b = IdentityEncoding
                     /\ (Len(b) = EncodedSize /\ b[1] >= 192 /\ b # IdentityEncoding)
                        => Value(i + 1).kind = "BadPoint"

\* An input of the length of a G1 encoding with bits 7 and 6 set, no other
\* bit of byte 0 set and a non-zero last byte got BadPoint.
C17_Witness ==
    /\ cd_group = "g1" /\ cd_input.kind = "bytes" /\ Len(cd_steps) >= 1
    /\ Len(cd_input.val) = EncodedSize
    /\ cd_input.val[1] = 192
    /\ cd_input.val[EncodedSize] # 0
    /\ cd_steps[1].kind = "BadPoint"

\* C18 as claimed: every point decompress returns lies in the subgroup of
\* order CURVE_ORDER.
C18_DecodedInSubgroup ==
    \A i \in 1..Len(cd_steps) :
        Value(i).kind = "Ok" => CodecInSubgroup(Value(i).val)

\* The first and the second half of a G2 encoding, byte 0 without its flags.
ImaginaryHalf(b) == SubSeq([b EXCEPT ![1] = @ % 32], 1, MODBYTES)
RealHalf(b) == SubSeq(b, MODBYTES + 1, 2 * MODBYTES)

\* C19: in the encoding of a point of G2 other than the identity, bytes
\* 0..MODBYTES without the flag bits hold the imaginary part of x and bytes
\* MODBYTES..2*MODBYTES the real part, big-endian, when compress_g2 writes
\* them and when decompress_g2 reads them.
C19_ImaginaryThenReal ==
    cd_group = "g2" =>
    \A i \in 0..(Len(cd_steps) - 1) :
        /\ (IsPoint(Value(i)) /\ ~GroupG2_is_infinity(Value(i).val))
              => LET x == GroupG2_getx(Value(i).val)
                     b == Value(i + 1).val
                 IN  /\ ImaginaryHalf(b) = Big_tobytes(FP2_getb(x), MODBYTES)
                     /\ RealHalf(b) = Big_tobytes(FP2_geta(x), MODBYTES)
        /\ (IsBytes(Value(i)) /\ Value(i + 1).kind = "Ok"
               /\ ~GroupG2_is_infinity(Value(i + 1).val))
              => LET x == GroupG2_getx(Value(i + 1).val)
                     b == Value(i).val
                 IN  /\ FP2_getb(x) = Big_frombytes(ImaginaryHalf(b)) % MODULUS
                     /\ FP2_geta(x) = Big_frombytes(RealHalf(b)) % MODULUS

\* A point whose x has different, non-zero real and imaginary parts was
\* compressed and read back.
C19_Witness ==
    /\ cd_group = "g2" /\ cd_input.kind = "point" /\ Len(cd_steps) >= 2
    /\ ~GroupG2_is_infinity(cd_input.val)
    /\ LET x == GroupG2_getx(cd_input.val)
       IN  /\ FP2_geta(x) # 0 /\ FP2_getb(x) # 0 /\ FP2_geta(x) # FP2_getb(x)
           /\ Big_frombytes(ImaginaryHalf(cd_steps[1].val)) = FP2_getb(x)
           /\ Big_frombytes(RealHalf(cd_steps[1].val)) = FP2_geta(x)
    /\ cd_steps[2].kind = "Ok"

(***************************************************************************)
(* Aggregation: add and add_aggregate (aggregates.rs:62-71, 112-121)       *)
(***************************************************************************)

\* Largest number of elements in an aggregate, of add_aggregate calls.
MaxElements == 3
MaxMerges == 2

\* What can be added: the public key of a secret key, the signature of a
\* secret key over a message.
Elements(kind) ==
    IF kind = "pk" THEN {<<sk>> : sk \in SecretKeys}
    ELSE {1, CURVE_ORDER - 1} \X SignMsgs

ElementPoint(kind, x) ==
    IF kind = "pk" THEN PublicKey_from_secret_key(x[1])
    ELSE Signature_new(x[2], SIGN_DOMAIN, x[1])

\* Number of elements that went into aggregate i.
RECURSIVE CountOver(_, _)
CountOver(counts, S) ==
    IF S = {} THEN 0
    ELSE LET x == CHOOSE y \in S : TRUE
         IN  counts[x] + CountOver(counts, S \ {x})
Size(i) == CountOver(mo_added[i], DOMAIN mo_added[i])

InitMonoid ==
    /\ SerialIdle
    /\ VerifyIdle
    /\ BatchIdle
    /\ MultipleIdle
    /\ CodecIdle
    /\ mo_kind \in {"pk", "sig"}
    /\ mo_agg = IF mo_kind = "pk"
                THEN <<AggregatePublicKey_new, AggregatePublicKey_new>>
                ELSE <<AggregateSignature_new, AggregateSignature_new>>
    /\ mo_added = [i \in 1..2 |-> [x \in Elements(mo_kind) |-> 0]]
    /\ mo_merges = 0

\* aggregate i .add(element x)
MonoidAdd(i, x) ==
    /\ mo_kind \in {"pk", "sig"}
    /\ Size(i) < MaxElements
    /\ mo_agg' = [mo_agg EXCEPT ![i] =
                     IF mo_kind = "pk"
                     THEN AggregatePublicKey_add(@, ElementPoint(mo_kind, x))
                     ELSE AggregateSignature_add(@, ElementPoint(mo_kind, x))]
    /\ mo_added' = [mo_added EXCEPT ![i][x] = @ + 1]
    /\ UNCHANGED <<mo_kind, mo_merges>>
    /\ UNCHANGED <<verify_vars, batch_vars, vm_vars, codec_vars, serial_vars>>

\* aggregate i .add_aggregate(aggregate j)
MonoidAddAggregate(i, j) ==
    /\ mo_kind \in {"pk", "sig"}
    /\ i # j
    /\ mo_merges < MaxMerges
    /\ Size(i) + Size(j) <= MaxElements
    /\ mo_agg' = [mo_agg EXCEPT ![i] =
                     IF mo_kind = "pk"
                     THEN AggregatePublicKey_add_aggregate(@, mo_agg[j])
                     ELSE AggregateSignature_add_aggregate(@, mo_agg[j])]
    /\ mo_added' = [mo_added EXCEPT ![i] =
                     [x \in Elements(mo_kind) |-> mo_added[i][x] + mo_added[j][x]]]
    /\ mo_merges' = mo_merges + 1
    /\ UNCHANGED mo_kind
    /\ UNCHANGED <<verify_vars, batch_vars, vm_vars, codec_vars, serial_vars>>

NextMonoid ==
    \/ \E i \in 1..2, x \in Elements(mo_kind) : MonoidAdd(i, x)
    \/ \E i \in 1..2, j \in 1..2 : MonoidAddAggregate(i, j)

SpecMonoid == InitMonoid /\ [][NextMonoid]_vars

\* The group element the elements counted add up to.
RECURSIVE SumOver(_, _, _)
SumOver(kind, counts, S) ==
    IF S = {} THEN 0
    ELSE LET x == CHOOSE y \in S : TRUE
         IN  (counts[x] * ElementPoint(kind, x).e + SumOver(kind, counts, S \ {x}))
               % CURVE_ORDER

\* C20: aggregation is an abelian monoid.  The value of an aggregate is
\* decided by which elements went into it and how often, not by the order
\* of the adds nor by the partial aggregates they went through; merging an
\* empty aggregate in changes nothing.
C20_AbelianMonoid ==
    /\ [](\A i \in DOMAIN mo_agg :
            mo_agg[i].e = SumOver(mo_kind, mo_added[i], DOMAIN mo_added[i]))
    /\ [][\A i \in 1..2, j \in 1..2 :
             (MonoidAddAggregate(i, j) /\ Size(j) = 0) => mo_agg'[i].e = mo_agg[i].e]_vars

\* An aggregate signature of MaxElements different signatures, built by
\* merging the other aggregate (all of them but one) into it.
C20_Witness ==
    /\ mo_kind = "sig" /\ mo_merges = 1
    /\ Size(1) = MaxElements /\ Size(2) = MaxElements - 1
    /\ \A x \in Elements(mo_kind) :
          mo_added[1][x] <= 1 /\ mo_added[2][x] <= mo_added[1][x]
    /\ mo_agg[1].e # mo_agg[2].e

(***************************************************************************)
(* Equality of aggregates                                                  *)
(***************************************************************************)

\* Longest key list handed to from_public_keys in the comparison.
MaxFold == 2

FoldSeqs == UNION {[1..n -> SecretKeys] : n \in 0..MaxFold}

\* from_public_keys over the public keys of the secret keys sks.
FoldedKey(sks) ==
    AggregatePublicKey_from_public_keys(
        [n \in 1..Len(sks) |-> PublicKey_from_secret_key(sks[n])])

\* The group element the keys of sks add up to.
RECURSIVE KeySum(_)
KeySum(sks) ==
    IF sks = <<>> THEN 0 ELSE (Head(sks) + KeySum(Tail(sks))) % CURVE_ORDER

\* The group element the elements that went into aggregate i add up to.
Built(i) == SumOver(mo_kind, mo_added[i], DOMAIN mo_added[i])

\* C21: equality of two aggregates depends only on the group element they
\* hold.  An AggregatePublicKey built with add / add_aggregate (never
\* normalized) equals one built with from_public_keys (normalized) exactly
\* when the keys have the same sum, and two aggregates of either kind are
\* equal exactly when their elements have the same sum.
C21_EqualityByValue ==
    /\ mo_kind = "pk" =>
          \A i \in 1..2, sks \in FoldSeqs :
              AggregatePublicKey_eq(mo_agg[i], FoldedKey(sks))
                  <=> (KeySum(sks) = Built(i))
    /\ mo_kind = "pk" =>
          \A i \in 1..2, j \in 1..2 :
              AggregatePublicKey_eq(mo_agg[i], mo_agg[j]) <=> (Built(i) = Built(j))
    /\ mo_kind = "sig" =>
          \A i \in 1..2, j \in 1..2 :
              AggregateSignature_eq(mo_agg[i], mo_agg[j]) <=> (Built(i) = Built(j))

\* An AggregatePublicKey built from MaxElements keys by add and
\* add_aggregate, not normalized and not the identity, equals the normalized
\* from_public_keys of a single key, which is held differently.
C21_Witness ==
    /\ mo_kind = "pk" /\ mo_merges >= 1 /\ Size(1) = MaxElements
    /\ ~mo_agg[1].aff /\ ~ECP_is_infinity(mo_agg[1])
    /\ \E sk \in SecretKeys :
          /\ AggregatePublicKey_eq(mo_agg[1], FoldedKey(<<sk>>))
          /\ FoldedKey(<<sk>>).aff
          /\ mo_agg[1] # FoldedKey(<<sk>>)

(***************************************************************************)
(* Serialization of aggregates (aggregates.rs:73-83, 248-258)              *)
(*                                                                         *)
(* The aggregates hold a group element by its discrete logarithm; the      *)
(* codec works on the provider's coordinates of that element.              *)
(***************************************************************************)

\* G1Point::as_bytes(&mut self), G2Point::as_bytes(&mut self) (g1.rs, g2.rs):
\* normalize the point and compress it.  The codec is handed the coordinates
\* the provider holds for the element (those of e times the generator,
\* with a denominator other than one when the point is not normalized);
\* self is the point after the call.
G1Point_as_bytes(point) ==
    LET W   == GroupG1_mul(GroupG1_generator, point.e)
        raw == IF point.aff THEN GroupG1_affine(W) ELSE GroupG1_projective(W, 2)
    IN  [self |-> ECP_affine(point), bytes |-> compress_g1(raw)]
G2Point_as_bytes(point) ==
    LET W   == GroupG2_mul(GroupG2_generator, point.e)
        raw == IF point.aff THEN GroupG2_affine(W)
               ELSE GroupG2_projective(W, FP2_new_bigs(2, 3))
    IN  [self |-> ECP_affine(point), bytes |-> compress_g2(raw)]

\* G1Point::from_bytes, G2Point::from_bytes (g1.rs, g2.rs): decompress.  The
\* element decoded is held by its discrete logarithm, normalized when its
\* coordinates are.
G1Point_from_bytes(bytes) ==
    LET raw == decompress_g1(bytes)
    IN  IF raw.kind # "Ok" THEN raw
        ELSE Ok([e   |-> CHOOSE k \in 0..(CURVE_ORDER - 1) :
                             GroupG1_equals(raw.val, GroupG1_mul(GroupG1_generator, k)),
                 aff |-> raw.val = GroupG1_affine(raw.val)])
G2Point_from_bytes(bytes) ==
    LET raw == decompress_g2(bytes)
    IN  IF raw.kind # "Ok" THEN raw
        ELSE Ok([e   |-> CHOOSE k \in 0..(CURVE_ORDER - 1) :
                             GroupG2_equals(raw.val, GroupG2_mul(GroupG2_generator, k)),
                 aff |-> raw.val = GroupG2_affine(raw.val)])

\* aggregates.rs:74 AggregatePublicKey::from_bytes
AggregatePublicKey_from_bytes(bytes) == G1Point_from_bytes(bytes)

\* aggregates.rs:249 AggregateSignature::from_bytes
AggregateSignature_from_bytes(bytes) == G2Point_from_bytes(bytes)

\* aggregates.rs:80 AggregatePublicKey::as_bytes(&self): the bytes of a clone
\* of the point.  self is the receiver's point after the call.
AggregatePublicKey_as_bytes(self) ==
    LET clone == self
    IN  [self |-> self, bytes |-> G1Point_as_bytes(clone).bytes]

\* An as_bytes that exports the receiver's own point, not a clone of it.
AggregateSignature_as_bytes_in_place(self) == G2Point_as_bytes(self)

\* aggregates.rs:255 AggregateSignature::as_bytes(&self)
AggregateSignature_as_bytes(self) ==
    LET clone == self
    IN  [self |-> self, bytes |-> G2Point_as_bytes(clone).bytes]

(***************************************************************************)
(* Export and import of a pair of aggregates: test_aggregate_serialization *)
(***************************************************************************)

\* The aggregates are built: any element, normalized or not.
InitSerial ==
    /\ VerifyIdle
    /\ BatchIdle
    /\ MultipleIdle
    /\ MonoidIdle
    /\ cd_group = "none" /\ cd_input = <<>> /\ cd_steps = <<>>
    /\ cd_root \in {0, 1}
    /\ sr_sig \in Point
    /\ sr_key \in Point
    /\ sr_msg \in Msgs
    /\ sr_domain \in Domains
    /\ sr_sig_bytes = <<>>
    /\ sr_key_bytes = <<>>
    /\ sr_dec_sig = <<>>
    /\ sr_dec_key = <<>>
    /\ sr_before = "none"
    /\ sr_after = "none"
    /\ sr_pc = "built"

\* agg_sig.verify(&message, domain, &agg_pub_key) on the aggregates built
SerialVerify ==
    /\ sr_pc = "built"
    /\ sr_before' = Bool(verify(sr_sig, sr_msg, sr_domain, sr_key))
    /\ sr_pc' = "checked"
    /\ UNCHANGED <<sr_sig, sr_key, sr_msg, sr_domain, sr_sig_bytes, sr_key_bytes,
                   sr_dec_sig, sr_dec_key, sr_after>>
    /\ UNCHANGED <<verify_vars, batch_vars, vm_vars, codec_vars, monoid_vars>>

\* Lines 312-313: agg_sig.as_bytes(), agg_pub_key.as_bytes()
SerialAsBytes ==
    /\ sr_pc = "checked"
    /\ LET sig == AggregateSignature_as_bytes(sr_sig)
           key == AggregatePublicKey_as_bytes(sr_key)
       IN  /\ sr_sig' = sig.self
           /\ sr_key' = key.self
           /\ sr_sig_bytes' = sig.bytes
           /\ sr_key_bytes' = key.bytes
    /\ sr_pc' = "exported"
    /\ UNCHANGED <<sr_msg, sr_domain, sr_dec_sig, sr_dec_key, sr_before, sr_after>>
    /\ UNCHANGED <<verify_vars, batch_vars, vm_vars, codec_vars, monoid_vars>>

\* Lines 315-316: from_bytes of both byte strings
SerialFromBytes ==
    /\ sr_pc = "exported"
    /\ sr_dec_sig' = AggregateSignature_from_bytes(sr_sig_bytes)
    /\ sr_dec_key' = AggregatePublicKey_from_bytes(sr_key_bytes)
    /\ sr_pc' = "imported"
    /\ UNCHANGED <<sr_sig, sr_key, sr_msg, sr_domain, sr_sig_bytes, sr_key_bytes,
                   sr_before, sr_after>>
    /\ UNCHANGED <<verify_vars, batch_vars, vm_vars, codec_vars, monoid_vars>>

\* Line 318: verify on the aggregates imported (both unwrap() calls passed)
SerialVerifyImported ==
    /\ sr_pc = "imported"
    /\ sr_dec_sig.kind = "Ok" /\ sr_dec_key.kind = "Ok"
    /\ sr_after' = Bool(verify(sr_dec_sig.val, sr_msg, sr_domain, sr_dec_key.val))
    /\ sr_pc' = "verified"
    /\ UNCHANGED <<sr_sig, sr_key, sr_msg, sr_domain, sr_sig_bytes, sr_key_bytes,
                   sr_dec_sig, sr_dec_key, sr_before>>
    /\ UNCHANGED <<verify_vars, batch_vars, vm_vars, codec_vars, monoid_vars>>

NextSerial ==
    \/ SerialVerify
    \/ SerialAsBytes
    \/ SerialFromBytes
    \/ SerialVerifyImported

SpecSerial == InitSerial /\ [][NextSerial]_vars

\* C22: for every AggregatePublicKey and every AggregateSignature a
\* (normalized or not, the identity included), from_bytes(as_bytes(a))
\* succeeds and yields an aggregate equal to a, and verify gives the same
\* result on the aggregates imported as on the aggregates exported.
C22_FromBytesAsBytes ==
    /\ sr_pc \in {"imported", "verified"} =>
          /\ sr_dec_sig.kind = "Ok" /\ sr_dec_key.kind = "Ok"
          /\ AggregateSignature_eq(sr_dec_sig.val, sr_sig)
          /\ AggregatePublicKey_eq(sr_dec_key.val, sr_key)
    /\ sr_pc = "verified" => sr_after = sr_before

\* Two aggregates that are neither normalized nor the identity, and verify
\* together, were exported and imported and verify again.
C22_Witness ==
    /\ sr_pc = "verified"
    /\ ~sr_sig.aff /\ ~sr_key.aff
    /\ ~ECP_is_infinity(sr_sig) /\ ~ECP_is_infinity(sr_key)
    /\ sr_dec_sig.val # sr_sig /\ sr_dec_key.val # sr_key
    /\ sr_before = "true" /\ sr_after = "true"

(***************************************************************************)
(* The operands of verify, verify_multiple and as_bytes                    *)
(***************************************************************************)

\* One call of verify_multiple, or one export and import with its calls
\* of verify and as_bytes.
InitFrame == InitMultiple \/ InitSerial

NextFrame ==
    \/ VM_Reject
    \/ VM_Enter
    \/ VM_Pair
    \/ VM_Finish
    \/ SerialVerify
    \/ SerialAsBytes
    \/ SerialFromBytes
    \/ SerialVerifyImported

SpecFrame == InitFrame /\ [][NextFrame]_vars

\* C23: verify, verify_multiple and as_bytes leave their operands unchanged.
\* Over every step of a verify_multiple call, early returns included, the
\* receiver and every aggregate key hold the same point in the same
\* representation; so do the receiver and the key of verify, on the
\* aggregates built and on those imported, and the receivers of as_bytes.
C23_OperandsUnchanged ==
    [][/\ (VM_Reject \/ VM_Enter \/ VM_Pair \/ VM_Finish)
           => (vm_self' = vm_self /\ vm_apks' = vm_apks)
       /\ (SerialVerify \/ SerialAsBytes)
           => (sr_sig' = sr_sig /\ sr_key' = sr_key)
       /\ SerialVerifyImported
           => (sr_dec_sig' = sr_dec_sig /\ sr_dec_key' = sr_dec_key)]_vars

\* Two aggregates that are neither normalized nor the identity were handed
\* to verify and then exported with as_bytes.
C23_Witness ==
    /\ sr_pc = "exported"
    /\ sr_before \in {"true", "false"}
    /\ sr_sig_bytes # <<>> /\ sr_key_bytes # <<>>
    /\ ~sr_sig.aff /\ ~sr_key.aff
    /\ ~ECP_is_infinity(sr_sig) /\ ~ECP_is_infinity(sr_key)

====
